---- MODULE Spec2Model ----
(***************************************************************************)
(* A model of the resource discovery and key derivation engine of the      *)
(* Steam Tools generator (src/v30): the request executor (_make_request),  *)
(* the manifest fallback generator, the key derivation ensemble, the       *)
(* confidence aggregation and the generation session worker.               *)
(*                                                                         *)
(* Python strings are modelled as sequences of one-character strings, so   *)
(* that length, padding, truncation and digit tests are computed as the    *)
(* code computes them.                                                     *)
(***************************************************************************)
EXTENDS Integers, Sequences, FiniteSets, TLC

VARIABLES
    \* ---- request executor (_make_request) ----
    rqClass,      \* class whose _make_request runs
    rqUrl,        \* the url argument, as url.split('/')
    rqPc,         \* "idle" | "loop" | "returned" | "raised"
    rqAttempts,   \* HTTP attempts issued by the current call
    rqLast,       \* outcome of the last attempt of the current call
    rqResult,     \* "unset" | "Response" | "None"
    rqCalls,      \* calls made so far in this process
    consecFails,  \* per url: calls that returned None in a row (observer)
    \* ---- manifest fallback (_generate_realistic_manifest_id) ----
    mfPc,         \* "idle" | "done"
    mfApp,        \* app_id argument
    mfDepot,      \* depot_id argument
    mfRand,       \* value of random.randint(100000, 999999)
    mfResult,     \* returned manifest id
    \* ---- key derivation (_generate_encryption_key, ai_generate_advanced_key) ----
    kdPc,         \* "idle" | "ready" | "called1" | "called2"
    kdInput,      \* entry point, app id, depot id and context of both calls
    kdKey1,       \* result of the first call
    kdKey2,       \* result of the second call
    now,          \* int(time.time())
    lmAvailable,  \* LMStudioIntegration.is_available(), fixed by the constructor
    \* ---- aggregation (_calculate_confidence_scores) ----
    agPc,         \* "idle" | "done"
    agInput,      \* generated_keys: the candidate list passed in
    agScores,     \* the returned dictionary key -> confidence (in tenths)
    \* ---- generation session (generate_files, _generate_files_thread) ----
    wPc,          \* worker: "idle" | "game_info" | "depots" | "manifest" | "key" |
                  \*         "files" | "done" | "handling" | "failed" | "escaped"
    wApp,         \* app_id
    wGameName,    \* game_name
    wDepots,      \* depot_ids
    wManifests,   \* manifest_data, in the order of depot_ids
    wKey,         \* encryption_key
    wExc,         \* class of the exception the worker raised, or "none"
    uiState,      \* "idle" | "warning" | "running" | "completed" | "error" |
                  \*   "callback_failed"
    uiPending,    \* callback scheduled with root.after: "none" | "update" | "error"
    uiFields,     \* the form: game_name, depot_id, manifest_id, encryption_key
    wReported,    \* progress values the worker has scheduled in this session (observer)
    \* ---- manifest lookup (_get_real_manifest_id, get_manifest_for_app) ----
    lkPc,         \* "idle" | "running" | "returned" | "stored"
    lkFn,         \* the lookup function that runs
    lkIds,        \* its arguments <<app_id, depot_id>>
    lkAnswers,    \* return values of the providers called so far, in call order
    lkResult,     \* return value of the lookup
    lkSource,     \* the function that produced the manifest id (observer)
    lkManifest,   \* manifest_data[depot_id]
    \* ---- game database (SteamGameDatabase) ----
    dbGames,      \* self.games: the items in insertion order
    dbCall,       \* the last call and its arguments
    dbReturn,     \* its return value; <<>> is None
    dbLast,       \* per app id, the record add_game was last called with (observer)
    \* ---- key search and game info (auto_find_keys, fetch_game_info) ----
    kfPc,         \* search worker: "idle" | "searching" | "community" | "fares" | "ai" | "scheduled"
    kfMethodsTried, \* methods_tried of the search worker
    kfAutoFindBtn,  \* state of auto_find_btn: "normal" | "disabled"
    kfFetchPc,    \* fetch worker: "idle" | "fetching" | "scheduled"
    kfFetchApp,   \* app_id of the fetch
    kfFetchBtn,   \* state of fetch_btn: "normal" | "disabled"
    kfCallback,   \* the callback the fetch worker handed to root.after
    kfGameName,   \* the form's game_name
    kfApp,        \* app_id of the search
    kfFound,      \* found_keys, in insertion order
    kfDepotId,    \* the form's depot_id
    kfManifestId, \* the form's manifest_id
    kfKey,        \* the form's encryption_key: the current key
    kfSource,     \* 'source' of the key data the current key was taken from (observer)
    \* ---- overlapping sessions (generate_files called again) ----
    ovPc,         \* per session: "idle" | "running" | "storing" | "finished"
    ovStores,     \* per session: how many of the five assignments it has done
    ovGenerated,  \* per generated_... attribute: the session that stored it, 0 for none
    ovQueue,      \* sessions whose _update_generated_files callback is scheduled
    ovDisplayed,  \* the session whose depot, manifest and key the form shows, 0 for none
    \* ---- pattern scan of one response (for pattern in patterns) ----
    scPc,         \* "idle" | "scanning" | "done"
    scFn,         \* the function whose pattern list is used
    scResponse,   \* per pattern, what re.findall returns on the response
    scEvaluated,  \* the patterns evaluated so far, in order (observer)
    scResult,     \* the value returned for the response; "0" for none
    \* ---- extraction (_extract_manifest_from_json, _try_steamdb_api_endpoints, _parse_ai_response) ----
    exFn,         \* the extraction function last called, or "none"
    exBody,       \* the response body it was given
    exResult,     \* what it returned, or the class of the exception it raised
    \* ---- depot discovery (_find_depot_ids) ----
    fdPc,         \* "idle" | "returned"
    fdApp,        \* app_id
    fdLm,         \* whether the language model is available
    fdEnv,        \* what the depot sources answer
    fdResult,     \* the returned list of depot ids
    \* ---- key validation (validate_decryption_key) ----
    vkPc,         \* "idle" | "validated" | "revalidated"
    vkKey,        \* the key passed in
    vkResult,     \* the value returned for it
    vkAgain,      \* the value returned for vkResult
    \* ---- hybrid discovery (discover_games_hybrid, discover_games_with_ai) ----
    hyPc,         \* how many sources were read; 6 once final_games is returned, 7 once merged
    hyReported,   \* per source, the list it returned (observer)
    hyAllGames,   \* all_games
    hyFinalGames, \* final_games, the items of unique_games
    hyGames,      \* GameDatabase.games, in insertion order
    \* ---- language model (LMStudioIntegration) ----
    lsPc,         \* "constructing", or the method called last
    lsModelId,    \* self.model_id
    lsAvailable,  \* self.available
    lsReturn,     \* what the last call returned or raised
    lsRequests    \* chat completion requests sent so far (observer)

rqVars == <<rqClass, rqUrl, rqPc, rqAttempts, rqLast, rqResult, rqCalls, consecFails>>
mfVars == <<mfPc, mfApp, mfDepot, mfRand, mfResult>>
kdVars == <<kdPc, kdInput, kdKey1, kdKey2, now, lmAvailable>>
agVars == <<agPc, agInput, agScores>>
wsVars ==
    <<wPc, wApp, wGameName, wDepots, wManifests, wKey, wExc, uiState, uiPending, uiFields,
      wReported>>
lkVars == <<lkPc, lkFn, lkIds, lkAnswers, lkResult, lkSource, lkManifest>>
dbVars == <<dbGames, dbCall, dbReturn, dbLast>>
kfVars == <<kfPc, kfApp, kfFound, kfDepotId, kfManifestId, kfKey, kfSource, kfMethodsTried,
           kfAutoFindBtn, kfFetchPc, kfFetchApp, kfFetchBtn, kfCallback, kfGameName>>
ovVars == <<ovPc, ovStores, ovGenerated, ovQueue, ovDisplayed>>
scVars == <<scPc, scFn, scResponse, scEvaluated, scResult>>
exVars == <<exFn, exBody, exResult>>
fdVars == <<fdPc, fdApp, fdLm, fdEnv, fdResult>>
vkVars == <<vkPc, vkKey, vkResult, vkAgain>>
hyVars == <<hyPc, hyReported, hyAllGames, hyFinalGames, hyGames>>
lsVars == <<lsPc, lsModelId, lsAvailable, lsReturn, lsRequests>>

vars == <<rqVars, mfVars, kdVars, agVars, wsVars, lkVars, dbVars, kfVars, ovVars, scVars, exVars, fdVars, vkVars, hyVars, lsVars>>

\* What the operations of one component leave alone.
notRq == <<mfVars, kdVars, agVars, wsVars, lkVars, dbVars, kfVars, ovVars, scVars, exVars, fdVars, vkVars, hyVars, lsVars>>
notMf == <<rqVars, kdVars, agVars, wsVars, lkVars, dbVars, kfVars, ovVars, scVars, exVars, fdVars, vkVars, hyVars, lsVars>>
notKd == <<rqVars, mfVars, agVars, wsVars, lkVars, dbVars, kfVars, ovVars, scVars, exVars, fdVars, vkVars, hyVars, lsVars>>
notAg == <<rqVars, mfVars, kdVars, wsVars, lkVars, dbVars, kfVars, ovVars, scVars, exVars, fdVars, vkVars, hyVars, lsVars>>
notWs == <<rqVars, mfVars, kdVars, agVars, lkVars, dbVars, kfVars, ovVars, scVars, exVars, fdVars, vkVars, hyVars, lsVars>>
notLk == <<rqVars, mfVars, kdVars, agVars, wsVars, dbVars, kfVars, ovVars, scVars, exVars, fdVars, vkVars, hyVars, lsVars>>
notDb == <<rqVars, mfVars, kdVars, agVars, wsVars, lkVars, kfVars, ovVars, scVars, exVars, fdVars, vkVars, hyVars, lsVars>>
notKf == <<rqVars, mfVars, kdVars, agVars, wsVars, lkVars, dbVars, ovVars, scVars, exVars, fdVars, vkVars, hyVars, lsVars>>
notOv == <<rqVars, mfVars, kdVars, agVars, wsVars, lkVars, dbVars, kfVars, scVars, exVars, fdVars, vkVars, hyVars, lsVars>>
notSc == <<rqVars, mfVars, kdVars, agVars, wsVars, lkVars, dbVars, kfVars, ovVars, exVars, fdVars, vkVars, hyVars, lsVars>>
notEx == <<rqVars, mfVars, kdVars, agVars, wsVars, lkVars, dbVars, kfVars, ovVars, scVars, fdVars, vkVars, hyVars, lsVars>>
notFd == <<rqVars, mfVars, kdVars, agVars, wsVars, lkVars, dbVars, kfVars, ovVars, scVars, exVars, vkVars, hyVars, lsVars>>
notVk == <<rqVars, mfVars, kdVars, agVars, wsVars, lkVars, dbVars, kfVars, ovVars, scVars, exVars, fdVars, hyVars, lsVars>>
notHy == <<rqVars, mfVars, kdVars, agVars, wsVars, lkVars, dbVars, kfVars, ovVars, scVars, exVars, fdVars, vkVars, lsVars>>
notLs == <<rqVars, mfVars, kdVars, agVars, wsVars, lkVars, dbVars, kfVars, ovVars, scVars, exVars, fdVars, vkVars, hyVars>>

-----------------------------------------------------------------------------
(* Strings                                                                 *)

Digits == {"0", "1", "2", "3", "4", "5", "6", "7", "8", "9"}

\* str.isdigit() on a non-empty string
IsDigits(s) == Len(s) > 0 /\ \A i \in 1..Len(s) : s[i] \in Digits

\* n copies of character c
Repeat(c, n) == [i \in 1..n |-> c]

DigitChars == <<"0", "1", "2", "3", "4", "5", "6", "7", "8", "9">>

\* str(n) for an integer n >= 0
RECURSIVE IntToStr(_)
IntToStr(n) ==
    IF n < 10 THEN <<DigitChars[n + 1]>>
    ELSE IntToStr(n \div 10) \o <<DigitChars[(n % 10) + 1]>>

\* str.zfill(width): zeros are inserted after a leading sign
ZFill(s, width) ==
    IF Len(s) >= width THEN s
    ELSE IF Len(s) > 0 /\ s[1] \in {"+", "-"}
         THEN <<s[1]>> \o Repeat("0", width - Len(s)) \o Tail(s)
    ELSE Repeat("0", width - Len(s)) \o s

-----------------------------------------------------------------------------
(* Request executor: SteamToolsGenerator._make_request and                 *)
(* HybridGameDiscovery._make_request                                       *)

\* range(5) in SteamToolsGenerator._make_request
StgAttempts == 5
\* range(3) in HybridGameDiscovery._make_request
HgdAttempts == 3

\* The threshold the specification calls maxConsecutiveFailures.
MaxConsecutiveFailures == 3
\* Calls of _make_request followed in one process.
MaxCalls == MaxConsecutiveFailures + 2

RequestClasses == {"SteamToolsGenerator", "HybridGameDiscovery"}

\* url.split('/') of the urls the callers pass, and one url without a scheme.
UrlSteamDb == <<"https:", "", "steamdb.info", "api">>
UrlGitHub == <<"https:", "", "raw.githubusercontent.com", "app.json">>
UrlNoScheme == <<"steamdb.info">>
Urls == {UrlSteamDb, UrlGitHub, UrlNoScheme}

WellFormed(url) == Len(url) >= 3 /\ url[1] \in {"http:", "https:"} /\ url[2] = ""

\* What one session.get / requests.get can do.
StatusOutcomes == {"200", "403", "404", "429", "500"}
ExceptionOutcomes == {"SSLError", "Timeout", "RequestException", "Exception"}
\* requests raises MissingSchema (a RequestException) for a url without scheme.
AttemptOutcomes(url) ==
    IF WellFormed(url) THEN StatusOutcomes \cup ExceptionOutcomes
    ELSE {"RequestException"}

RetryBudgetMut(cls) == IF cls = "SteamToolsGenerator" THEN 6 ELSE 4

\* for attempt in range(5) / range(3)
RetryBudget(cls) == IF cls = "SteamToolsGenerator" THEN StgAttempts ELSE HgdAttempts

\* url.split('/')[2] in the messages: IndexError when there is no third part.
HostPrintable(url) == Len(url) >= 3

\* _generate_ai_alternative_url: lm_studio has no generate_response method, the
\* AttributeError is swallowed by the bare except and the original url returned.
GenerateAiAlternativeUrl(url) == url

AttemptEffectNoCatchAll(url, outcome) ==
    IF outcome = "200" THEN "return"
    ELSE IF outcome = "Exception" THEN "raise"
    ELSE IF HostPrintable(url) THEN "continue"
    ELSE "raise"

AttemptEffectNotFoundFails(url, outcome) ==
    IF outcome = "200" THEN "return"
    ELSE IF outcome = "404" THEN "fail"
    ELSE IF HostPrintable(url) THEN "continue"
    ELSE "raise"

\* One iteration of the loop body: status 200 returns the response; every other
\* status and every exception class prints the host and continues.  The print
\* in an except clause is outside every try, so its IndexError leaves the call.
AttemptEffect(url, outcome) ==
    IF outcome = "200" THEN "return"
    ELSE IF outcome \in StatusOutcomes \cup ExceptionOutcomes
         THEN IF HostPrintable(url) THEN "continue" ELSE "raise"
    ELSE "raise"

\* Observer of the call results per url: reset by a response, counted up by None.
FailsAfter(fails, url, result) ==
    IF result = "Response" THEN [fails EXCEPT ![url] = 0]
    ELSE [fails EXCEPT ![url] = @ + 1]

RequestInit ==
    /\ rqClass = "SteamToolsGenerator"
    /\ rqUrl = UrlSteamDb
    /\ rqPc = "idle"
    /\ rqAttempts = 0
    /\ rqLast = "none"
    /\ rqResult = "unset"
    /\ rqCalls = 0
    /\ consecFails = [u \in Urls |-> 0]

\* A circuit breaker in front of the loop, as the specification describes it.
MakeRequestCircuitBreaker(cls, url) ==
    /\ rqPc \in {"idle", "returned", "raised"}
    /\ rqCalls < MaxCalls
    /\ rqClass' = cls
    /\ rqUrl' = url
    /\ rqAttempts' = 0
    /\ rqLast' = "none"
    /\ rqCalls' = rqCalls + 1
    /\ IF consecFails[url] >= MaxConsecutiveFailures
       THEN /\ rqPc' = "returned"
            /\ rqResult' = "None"
            /\ consecFails' = FailsAfter(consecFails, url, "None")
       ELSE /\ rqPc' = "loop"
            /\ rqResult' = "unset"
            /\ UNCHANGED consecFails
    /\ UNCHANGED notRq

\* Entry of _make_request: the loop is entered unconditionally.
MakeRequest(cls, url) ==
    /\ rqPc \in {"idle", "returned", "raised"}
    /\ rqCalls < MaxCalls
    /\ rqClass' = cls
    /\ rqUrl' = url
    /\ rqPc' = "loop"
    /\ rqAttempts' = 0
    /\ rqLast' = "none"
    /\ rqResult' = "unset"
    /\ rqCalls' = rqCalls + 1
    /\ UNCHANGED consecFails
    /\ UNCHANGED notRq

\* One loop iteration; the iteration that exhausts range(n) also returns None.
Attempt(outcome) ==
    /\ rqPc = "loop"
    /\ rqAttempts < RetryBudget(rqClass)
    /\ outcome \in AttemptOutcomes(rqUrl)
    /\ rqAttempts' = rqAttempts + 1
    /\ rqLast' = outcome
    /\ LET effect == AttemptEffect(rqUrl, outcome) IN
       CASE effect = "return" ->
              /\ rqPc' = "returned"
              /\ rqResult' = "Response"
              /\ rqUrl' = rqUrl
              /\ consecFails' = FailsAfter(consecFails, rqUrl, "Response")
         [] effect = "fail" ->
              /\ rqPc' = "returned"
              /\ rqResult' = "None"
              /\ rqUrl' = rqUrl
              /\ consecFails' = FailsAfter(consecFails, rqUrl, "None")
         [] effect = "raise" ->
              /\ rqPc' = "raised"
              /\ rqResult' = "unset"
              /\ rqUrl' = rqUrl
              /\ UNCHANGED consecFails
         [] effect = "continue" ->
              /\ rqUrl' = IF outcome = "403" /\ rqClass = "SteamToolsGenerator"
                          THEN GenerateAiAlternativeUrl(rqUrl) ELSE rqUrl
              /\ IF rqAttempts + 1 < RetryBudget(rqClass)
                 THEN /\ rqPc' = "loop"
                      /\ rqResult' = "unset"
                      /\ UNCHANGED consecFails
                 ELSE IF HostPrintable(rqUrl)
                 THEN /\ rqPc' = "returned"
                      /\ rqResult' = "None"
                      /\ consecFails' = FailsAfter(consecFails, rqUrl, "None")
                 ELSE /\ rqPc' = "raised"
                      /\ rqResult' = "unset"
                      /\ UNCHANGED consecFails
    /\ UNCHANGED <<rqClass, rqCalls>>
    /\ UNCHANGED notRq

CallMakeRequest == \E cls \in RequestClasses, url \in Urls : MakeRequest(cls, url)

RunAttempt == \E outcome \in StatusOutcomes \cup ExceptionOutcomes : Attempt(outcome)

-----------------------------------------------------------------------------
(* Manifest fallback: SteamToolsGenerator._generate_realistic_manifest_id   *)

\* "Ensure exactly 19 digits"
ManifestLength == 19
\* zfill(6)
IdWidth == 6
\* random.randint(100000, 999999)
RandomLow == 100000
RandomHigh == 999999

\* Longest app id and depot id drawn as inputs.
MaxIdLen == 7

\* Numeric ids of every length up to MaxIdLen, with and without a leading zero.
NumericIds ==
    {Repeat(d, n) : d \in {"7"}, n \in 1..MaxIdLen}
        \cup {<<"0">> \o Repeat("3", n) : n \in 1..(MaxIdLen - 1)}

RandomParts == {RandomLow, (RandomLow + RandomHigh) \div 2, RandomHigh}

\* 10 ** k
RECURSIVE Pow10(_)
Pow10(k) == IF k <= 0 THEN 1 ELSE 10 * Pow10(k - 1)

\* The four parts before the length is checked.
ManifestParts(app_id, depot_id, random_part) ==
    <<"1">> \o ZFill(app_id, IdWidth) \o ZFill(depot_id, IdWidth) \o IntToStr(random_part)

\* random.randint(10**(remaining-1), 10**remaining - 1) of the padding branch
PadRandoms(app_id, depot_id, random_part) ==
    LET remaining == ManifestLength - Len(ManifestParts(app_id, depot_id, random_part)) IN
    IF remaining <= 0 THEN {0}
    ELSE {Pow10(remaining - 1), Pow10(remaining) - 1}

GenerateRealisticManifestIdNoTruncate(app_id, depot_id, random_part, pad) ==
    ManifestParts(app_id, depot_id, random_part)

GenerateRealisticManifestId(app_id, depot_id, random_part, pad) ==
    LET manifest_id == ManifestParts(app_id, depot_id, random_part) IN
    IF Len(manifest_id) # ManifestLength
    THEN IF Len(manifest_id) < ManifestLength
         THEN manifest_id \o IntToStr(pad)
         ELSE SubSeq(manifest_id, 1, ManifestLength)
    ELSE manifest_id

ManifestInit ==
    /\ mfPc = "idle"
    /\ mfApp = <<>>
    /\ mfDepot = <<>>
    /\ mfRand = 0
    /\ mfResult = <<>>

GenerateManifest(app_id, depot_id, random_part, pad) ==
    /\ mfPc = "idle"
    /\ mfPc' = "done"
    /\ mfApp' = app_id
    /\ mfDepot' = depot_id
    /\ mfRand' = random_part
    /\ mfResult' = GenerateRealisticManifestId(app_id, depot_id, random_part, pad)
    /\ UNCHANGED notMf

CallGenerateManifest ==
    \E app_id \in NumericIds, depot_id \in NumericIds, random_part \in RandomParts :
        \E pad \in PadRandoms(app_id, depot_id, random_part) :
            GenerateManifest(app_id, depot_id, random_part, pad)

-----------------------------------------------------------------------------
(* Key derivation: SteamToolsGenerator._generate_encryption_key and         *)
(* AdvancedSteamAI.ai_generate_advanced_key                                 *)
(*                                                                          *)
(* A key is a record [text, len]: len is the Python len() of the string and *)
(* text names its content.  A hex digest is a function of its preimage      *)
(* alone, so hashlib.sha256(x).hexdigest() is the term sha256(x).           *)

\* Largest value of int(time.time()) followed.
MaxClock == 2

\* len(hashlib.sha256(...).hexdigest())
HexDigestLen == 64

Key(text, len) == [text |-> text, len |-> len]

\* An exception leaving the function instead of a key.
Raised == Key(<<"!raise">>, 0)

Sha256(preimage) == Key(<<"sha256(">> \o preimage \o <<")">>, HexDigestLen)

\* A reply of the language model: some = FALSE is None (no server, timeout,
\* non-200); keys are the runs re.findall(r'[a-f0-9]{64}', text.lower()) finds;
\* text is the reply's text.
Reply(some, keys, text) == [some |-> some, keys |-> keys, text |-> text]
NoReply == Reply(FALSE, <<>>, <<>>)

\* additional_data: None, or the game_info dictionary.
NoAdditional == [present |-> FALSE, release_date |-> <<>>, developer |-> <<>>]
Additional(release_date, developer) ==
    [present |-> TRUE, release_date |-> release_date, developer |-> developer]

\* int(s) of the decimal strings drawn here; ValueError otherwise
CanInt(s) == IsDigits(s)

\* int(response.strip()) for replies of at most one digit
ParseChoice(reply) ==
    IF reply.some /\ Len(reply.text) = 1 /\ reply.text[1] \in Digits
    THEN CHOOSE n \in 0..9 : DigitChars[n + 1] = reply.text[1]
    ELSE -1

AlgorithmSteamHash(app_id, depot_id, game_name, additional_data) ==
    Sha256(app_id \o depot_id \o game_name)

\* 16 words of f"{seed:08x}": 128 characters
DepotMathWords == 16
DepotMathWordLen == 8

AlgorithmDepotMath(app_id, depot_id, game_name, additional_data) ==
    IF CanInt(app_id) /\ CanInt(depot_id)
    THEN Key(<<"depot_math(">> \o app_id \o <<",">> \o depot_id \o <<")">>,
             DepotMathWords * DepotMathWordLen)
    ELSE Raised

AlgorithmNameBased(app_id, depot_id, game_name, additional_data) ==
    Sha256(Sha256(game_name).text \o Sha256(app_id).text \o Sha256(depot_id).text)

AlgorithmTimestampBased(app_id, depot_id, game_name, additional_data, timestamp) ==
    Sha256(app_id \o depot_id \o IntToStr(timestamp))

AlgorithmCombined(app_id, depot_id, game_name, additional_data, timestamp) ==
    IF additional_data.present
    THEN Sha256(app_id \o depot_id \o game_name \o IntToStr(timestamp)
                  \o additional_data.release_date \o additional_data.developer)
    ELSE Raised

FallbackKeyGeneration(app_id, depot_id) == Sha256(app_id \o depot_id)

\* candidates: the keys of the algorithms that did not raise and have 64 characters
KeyCandidates(app_id, depot_id, game_name, additional_data, timestamp) ==
    SelectSeq(
        << AlgorithmSteamHash(app_id, depot_id, game_name, additional_data),
           AlgorithmDepotMath(app_id, depot_id, game_name, additional_data),
           AlgorithmNameBased(app_id, depot_id, game_name, additional_data),
           AlgorithmTimestampBased(app_id, depot_id, game_name, additional_data, timestamp),
           AlgorithmCombined(app_id, depot_id, game_name, additional_data, timestamp) >>,
        LAMBDA key : key # Raised /\ key.len = HexDigestLen)

\* _ai_assisted_key_generation: the language model picks a candidate by number
AiAssistedKeyGeneration(app_id, depot_id, game_name, additional_data, env) ==
    LET candidates == KeyCandidates(app_id, depot_id, game_name, additional_data, env.time)
        choice == ParseChoice(env.reply2)
    IN  IF candidates # <<>> /\ env.lm /\ 1 <= choice /\ choice <= Len(candidates)
        THEN candidates[choice]
        ELSE IF candidates # <<>> THEN candidates[1]
        ELSE FallbackKeyGeneration(app_id, depot_id)

\* ai_generate_advanced_key
AiGenerateAdvancedKey(app_id, depot_id, game_name, additional_data, env) ==
    IF ~env.lm THEN FallbackKeyGeneration(app_id, depot_id)
    ELSE IF env.reply1.some /\ env.reply1.keys # <<>>
         THEN Key(<<"lm:">> \o env.reply1.keys[1], HexDigestLen)
    ELSE AiAssistedKeyGeneration(app_id, depot_id, game_name, additional_data, env)

\* game_info of _generate_encryption_key: the Steam Store record adds release
\* date and developer; a record whose release_date is no dictionary makes
\* steam_info.get('release_date', {}).get raise
GameInfo(steam) ==
    IF steam = "dict" THEN Additional(<<"2", "0", "2", "0">>, <<"V">>)
    ELSE Additional(<<>>, <<>>)

\* _generate_encryption_key
GenerateEncryptionKey(app_id, depot_id, game_name, env) ==
    IF env.lm
    THEN IF env.steam = "malformed" THEN Raised
         ELSE LET ai_key == AiGenerateAdvancedKey(app_id, depot_id, game_name,
                                                  GameInfo(env.steam), env)
              IN  IF ai_key.len = HexDigestLen THEN ai_key
                  ELSE Sha256(app_id \o depot_id)
    ELSE Sha256(app_id \o depot_id)

KeyEntries == {"_generate_encryption_key", "ai_generate_advanced_key"}
KeyIds == {<<"7", "3", "0">>, <<"x">>}
KeyNames == {<<>>, <<"G">>}
KeyAdditionals == {NoAdditional, Additional(<<>>, <<>>)}

KeyInputs ==
    [entry : KeyEntries, app_id : KeyIds, depot_id : {<<"7", "3", "1">>},
     game_name : KeyNames, additional_data : KeyAdditionals]

LmKeyReplies == {NoReply, Reply(TRUE, <<>>, <<"o", "k">>), Reply(TRUE, <<<<"k", "A">>>>, <<>>),
                 Reply(TRUE, <<<<"k", "B">>>>, <<>>)}
LmChoiceReplies ==
    {NoReply, Reply(TRUE, <<>>, <<"o", "k">>)}
        \cup {Reply(TRUE, <<>>, <<DigitChars[n + 1]>>) : n \in 0..5}

\* What the call finds around it: the language model's availability and
\* replies, the Steam Store record and the clock.
KeyEnvs(t) ==
    [lm : {lmAvailable}, steam : {"None", "dict", "malformed"},
     reply1 : LmKeyReplies, reply2 : LmChoiceReplies, time : {t}]

DeriveKey(input, env) ==
    IF input.entry = "_generate_encryption_key"
    THEN GenerateEncryptionKey(input.app_id, input.depot_id, input.game_name, env)
    ELSE AiGenerateAdvancedKey(input.app_id, input.depot_id, input.game_name,
                               input.additional_data, env)

KeyInit ==
    /\ kdPc = "idle"
    /\ kdInput = CHOOSE i \in KeyInputs : TRUE
    /\ kdKey1 = Raised
    /\ kdKey2 = Raised
    /\ now = 0
    /\ lmAvailable \in BOOLEAN

\* The caller fixes (app id, depot id, context).
KeyPrepare(input) ==
    /\ kdPc \in {"idle", "called2"}
    /\ kdPc' = "ready"
    /\ kdInput' = input
    /\ kdKey1' = Raised
    /\ kdKey2' = Raised
    /\ UNCHANGED <<now, lmAvailable>>
    /\ UNCHANGED notKd

KeyFirstCall(env) ==
    /\ kdPc = "ready"
    /\ kdPc' = "called1"
    /\ kdKey1' = DeriveKey(kdInput, env)
    /\ UNCHANGED <<kdInput, kdKey2, now, lmAvailable>>
    /\ UNCHANGED notKd

KeySecondCall(env) ==
    /\ kdPc = "called1"
    /\ kdPc' = "called2"
    /\ kdKey2' = DeriveKey(kdInput, env)
    /\ UNCHANGED <<kdInput, kdKey1, now, lmAvailable>>
    /\ UNCHANGED notKd

\* The wall clock advances.
Tick ==
    /\ now < MaxClock
    /\ now' = now + 1
    /\ UNCHANGED <<kdPc, kdInput, kdKey1, kdKey2, lmAvailable>>
    /\ UNCHANGED notKd

CallKeyPrepare == \E input \in KeyInputs : KeyPrepare(input)
CallKeyFirst == \E env \in KeyEnvs(now) : KeyFirstCall(env)
CallKeySecond == \E env \in KeyEnvs(now) : KeySecondCall(env)

-----------------------------------------------------------------------------
(* Aggregation: SteamToolsGenerator._calculate_confidence_scores            *)
(*                                                                          *)
(* Confidences are counted in tenths: 0.7 is 7, the bonus 0.1 is 1 and the  *)
(* cap 1.0 is 10.                                                           *)

\* Longest candidate list drawn as input.
MaxCandidates == 3

\* len(key) == 64
KeyLength == 64
\* confidence += 0.1, in tenths
Bonus == 1
\* min(confidence, 1.0), in tenths
ConfidenceCap == 10

HexChars == Digits \cup {"a", "b", "c", "d", "e", "f", "A", "B", "C", "D", "E", "F"}

\* Candidate keys: a 64-character hex key, a 63-character one and one of 64
\* characters that are not all hex digits.
AggKeys == {Repeat("a", KeyLength), Repeat("a", KeyLength - 1), Repeat("g", KeyLength)}
AggMethods == {"Neural Network", "SHA-256 Hash"}
AggConfidences == {5, 9}

Candidates == [key : AggKeys, method : AggMethods, confidence : AggConfidences]

CandidateLists == UNION {[1..n -> Candidates] : n \in 0..MaxCandidates}

\* len(key) == 64 and all(c in '0123456789abcdefABCDEF' for c in key)
ValidKeyShape(key) == Len(key) = KeyLength /\ \A i \in 1..Len(key) : key[i] \in HexChars

PreferredMethods == {"Neural Network", "Community: cysaw.org"}

Min(a, b) == IF a <= b THEN a ELSE b

\* The loop body without min(confidence, 1.0).
CandidateScoreUncapped(key_data) ==
    key_data.confidence
      + (IF ValidKeyShape(key_data.key) THEN Bonus ELSE 0)
      + (IF key_data.method \in PreferredMethods THEN Bonus ELSE 0)

\* The value the loop body stores for one candidate.
CandidateScore(key_data) ==
    Min(key_data.confidence
          + (IF ValidKeyShape(key_data.key) THEN Bonus ELSE 0)
          + (IF key_data.method \in PreferredMethods THEN Bonus ELSE 0),
        ConfidenceCap)

\* for key_data in generated_keys: scores[key] = min(confidence, 1.0)
RECURSIVE CalculateConfidenceScores(_)
CalculateConfidenceScores(generated_keys) ==
    IF generated_keys = <<>> THEN [k \in {} |-> 0]
    ELSE LET n == Len(generated_keys)
             key_data == generated_keys[n]
             scores == CalculateConfidenceScores(SubSeq(generated_keys, 1, n - 1))
         IN  [k \in DOMAIN scores \cup {key_data.key} |->
                 IF k = key_data.key THEN CandidateScore(key_data) ELSE scores[k]]

AggregateInit ==
    /\ agPc = "idle"
    /\ agInput = <<>>
    /\ agScores = [k \in {} |-> 0]

Aggregate(generated_keys) ==
    /\ agPc = "idle"
    /\ agPc' = "done"
    /\ agInput' = generated_keys
    /\ agScores' = CalculateConfidenceScores(generated_keys)
    /\ UNCHANGED notAg

CallAggregate == \E generated_keys \in CandidateLists : Aggregate(generated_keys)

-----------------------------------------------------------------------------
(* Generation session: SteamToolsGenerator.generate_files, the worker       *)
(* _generate_files_thread with the lookup functions it calls, and the       *)
(* callbacks the worker schedules on the UI thread.                         *)
(*                                                                          *)
(* Sessions are followed one at a time, each started from the cleared form. *)
(* The progress-bar callbacks touch only progress_var and status_var; the    *)
(* values they carry are recorded in the order the worker schedules them,  *)
(* which is the order in which Tk runs them.                                *)

\* depot_ids[:3]
MaxDepots == 3
\* len(manifest_id) >= 15 of the SteamDB page scrapers
MinScrapedLength == 15

Zero == <<"0">>
GamePrefix == <<"G", "a", "m", "e", "_">>

\* A value a step returns, or the class of the exception it raises.
Ok(v) == [exc |-> "none", val |-> v]
Raise(cls) == [exc |-> cls, val |-> <<>>]

\* str.strip() of the blanks drawn here
RECURSIVE Strip(_)
Strip(s) ==
    IF s = <<>> THEN s
    ELSE IF Head(s) = " " THEN Strip(Tail(s))
    ELSE IF s[Len(s)] = " " THEN Strip(SubSeq(s, 1, Len(s) - 1))
    ELSE s

\* Text typed into the App ID field.
AppIdEntries == {<<>>, <<" ">>, <<"7", "3", "0">>, <<"a", "b", "c", " ">>}

\* Answers of the Steam Store appdetails API as _get_game_info sees them:
\* "failed" (exception, status other than 200, success false), or the value
\* of data[app_id]['data']: a dictionary with or without 'name', a non-empty
\* list, an empty dictionary.
StoreReplies == {"failed", "dict", "dict_noname", "list", "empty"}

\* _get_game_info: the data value, or None
GetGameInfo(reply) == IF reply = "failed" THEN "None" ELSE reply

\* game_info.get('name', f'Game_{app_id}') if game_info else f'Game_{app_id}'
GameName(game_info, app_id) ==
    IF game_info \in {"None", "empty", "dict_noname"} THEN Ok(GamePrefix \o app_id)
    ELSE IF game_info = "dict" THEN Ok(<<"G">>)
    ELSE Raise("AttributeError")

\* depot_ids.append(depot_id) for every depot_id not in depot_ids
\* depot_ids.append(depot_id) without the test "depot_id not in depot_ids"
AppendAll(depot_ids, found) == depot_ids \o found

RECURSIVE AppendNew(_, _)
AppendNew(depot_ids, found) ==
    IF found = <<>> THEN depot_ids
    ELSE AppendNew(
            IF \E i \in 1..Len(depot_ids) : depot_ids[i] = Head(found)
            THEN depot_ids ELSE Append(depot_ids, Head(found)),
            Tail(found))

Take(s, n) == SubSeq(s, 1, Min(n, Len(s)))

\* An answer listing depot ids: kind is "RequestException" (session.get
\* raised), "Exception" (the parsed body has another shape), or "keys" (the
\* ids found, none for a status other than 200 or an undecodable body).
DepotReply(kind, keys) == [kind |-> kind, keys |-> keys]

\* _find_depot_ids
FindDepotIds(app_id, lm, env) ==
    IF env.steamdb.kind # "keys" \/ env.store.kind # "keys"
    THEN <<app_id \o <<"1">>>>
    ELSE LET ai == IF lm THEN AppendNew(<<>>, env.ai_depots) ELSE <<>>
             steamdb == AppendNew(ai, env.steamdb.keys)
             store == AppendNew(steamdb, env.store.keys)
             patterns == IF lm THEN AppendNew(store, env.patterns) ELSE store
             depot_ids == IF patterns = <<>>
                          THEN <<app_id \o <<"1">>, app_id \o <<"2">>, app_id \o <<"3">>>>
                          ELSE patterns
         IN  Take(depot_ids, MaxDepots)

DepotEnvs ==
    [ai_depots : {<<>>, <<<<"7", "3", "1">>>>},
     steamdb : {DepotReply("RequestException", <<>>), DepotReply("Exception", <<>>),
                DepotReply("keys", <<>>), DepotReply("keys", <<<<"7", "3", "1">>>>),
                DepotReply("keys", <<<<"p", "u", "b">>>>),
                DepotReply("keys", <<<<"7", "3", "1">>, <<"7", "3", "2">>,
                                     <<"7", "3", "3">>, <<"7", "3", "4">>>>)},
     store : {DepotReply("RequestException", <<>>), DepotReply("keys", <<>>),
              DepotReply("keys", <<<<"7", "3", "2">>>>)},
     patterns : {<<>>, <<<<"7", "3", "1">>>>}]

\* What a manifest source holds for the depot: nothing, or a manifest value.
NotFound == [found |-> FALSE, value |-> <<>>]
Found(value) == [found |-> TRUE, value |-> value]

RealManifest == <<"1">> \o Repeat("9", ManifestLength - 1)
ShortManifest == <<"1", "2">>

\* _get_manifest_from_steam_hub: 'manifest_id' of the hub API, then of the
\* GitHub file; "if manifest_id:" is the only test
GetManifestFromSteamHub(hub, github) ==
    IF hub.found /\ hub.value # <<>> THEN hub.value
    ELSE IF github.found /\ github.value # <<>> THEN github.value
    ELSE Zero

\* _get_manifest_from_valvepython
GetManifestFromValvepython(app_id, depot_id, steam_logged_in, random_part) ==
    IF steam_logged_in
    THEN <<"1">> \o ZFill(app_id, IdWidth) \o ZFill(depot_id, IdWidth) \o IntToStr(random_part)
    ELSE Zero

\* _scrape_steamdb_manifests_page, _scrape_steamdb_depot_page,
\* _scrape_steamdb_app_page: the first match of (\d+)
ScrapeSteamdbPage(page) ==
    IF page.found /\ IsDigits(page.value) /\ Len(page.value) >= MinScrapedLength
    THEN page.value ELSE Zero

\* _try_steamdb_api_endpoints: str(data['manifest'])
TrySteamdbApiEndpoints(api) == IF api.found THEN api.value ELSE Zero

\* _try_alternative_sources: len(match) == 19 and match.isdigit()
TryAlternativeSources(alt) ==
    IF alt.found /\ Len(alt.value) = ManifestLength /\ IsDigits(alt.value)
    THEN alt.value ELSE Zero

RECURSIVE FirstNonZero(_)
FirstNonZero(found) ==
    IF found = <<>> THEN Zero
    ELSE IF Head(found) # Zero THEN Head(found)
    ELSE FirstNonZero(Tail(found))

\* _get_real_manifest_id: the first source, in order, whose answer is not "0"
GetRealManifestId(app_id, depot_id, env) ==
    FirstNonZero(<< GetManifestFromSteamHub(env.hub, env.github),
                    GetManifestFromValvepython(app_id, depot_id, env.steam_logged_in, env.random),
                    ScrapeSteamdbPage(env.manifests_page),
                    ScrapeSteamdbPage(env.depot_page),
                    ScrapeSteamdbPage(env.app_page),
                    TrySteamdbApiEndpoints(env.api),
                    TryAlternativeSources(env.alt) >>)

ManifestEnvs ==
    [hub : {NotFound, Found(<<>>)},
     github : {NotFound, Found(ShortManifest)},
     steam_logged_in : BOOLEAN,
     manifests_page : {NotFound, Found(ShortManifest)},
     depot_page : {NotFound, Found(RealManifest)},
     app_page : {NotFound, Found(RealManifest)},
     api : {NotFound, Found(<<>>)},
     alt : {NotFound, Found(ShortManifest), Found(RealManifest)},
     random : {RandomHigh}]

\* manifest_id of one iteration of the depot loop
ResolveManifest(app_id, depot_id, env, pad) ==
    LET manifest_id == GetRealManifestId(app_id, depot_id, env) IN
    IF manifest_id = Zero
    THEN GenerateRealisticManifestId(app_id, depot_id, env.random, pad)
    ELSE manifest_id

\* Replies the session's key derivation can meet.
SessionKeyEnvs ==
    {env \in KeyEnvs(now) :
        /\ env.reply1 \in {NoReply, Reply(TRUE, <<<<"k", "A">>>>, <<>>)}
        /\ env.reply2 \in {NoReply, Reply(TRUE, <<>>, <<"3">>)}}

\* _generate_lua_file: with the language model available the Steam Store
\* record is read again
GenerateLuaFile(lm, steam) ==
    IF lm /\ steam = "malformed" THEN Raise("AttributeError") ELSE Ok(<<"l", "u", "a">>)

\* _generate_json_file: "depots": [int(depot_id)]
GenerateJsonFile(depot_id) ==
    IF CanInt(depot_id) THEN Ok(<<"j", "s", "o", "n">>) ELSE Raise("ValueError")

\* _generate_lua_file, then _generate_json_file; the three generators after
\* them only format their arguments
GenerateFileContents(depot_id, lm, steam) ==
    IF GenerateLuaFile(lm, steam).exc # "none" THEN GenerateLuaFile(lm, steam)
    ELSE GenerateJsonFile(depot_id)

ExceptionClasses == {"AttributeError", "ValueError"}

HandlerCatchesOnlyRequestErrors(exc) == exc = "RequestException"

\* "except Exception as e:" of the worker
HandlerCatches(exc) == exc \in ExceptionClasses \cup {"RequestException"}

NoFields == [game_name |-> <<>>, depot_id |-> <<>>, manifest_id |-> <<>>,
             encryption_key |-> Key(<<>>, 0)]

\* The values the worker passes to _update_progress, in program order.
Progress == <<10, 25, 50, 70, 85, 100>>

\* The phases of the worker, in program order.
Phases == <<"game_info", "depots", "manifest", "key", "files", "done">>
PhaseRank(pc) == CHOOSE i \in 1..Len(Phases) : Phases[i] = pc

SessionInit ==
    /\ wPc = "idle"
    /\ wApp = <<>>
    /\ wGameName = <<>>
    /\ wDepots = <<>>
    /\ wManifests = <<>>
    /\ wKey = Key(<<>>, 0)
    /\ wExc = "none"
    /\ uiState = "idle"
    /\ uiPending = "none"
    /\ uiFields = NoFields
    /\ wReported = <<>>

\* An exception raised in the worker's try block reaches its handler, which
\* schedules _generation_error; an exception the handler does not catch
\* leaves the worker.
WorkerRaise(exc) ==
    /\ wExc' = exc
    /\ IF HandlerCatches(exc)
       THEN wPc' = "handling" /\ uiPending' = "error"
       ELSE wPc' = "escaped" /\ UNCHANGED uiPending

\* generate_files
GenerateFiles(entry) ==
    /\ uiState = "idle"
    /\ wPc = "idle"
    /\ LET app_id == Strip(entry) IN
       IF app_id = <<>>
       THEN /\ uiState' = "warning"
            /\ UNCHANGED <<wPc, wApp>>
       ELSE /\ uiState' = "running"
            /\ wPc' = "game_info"
            /\ wApp' = app_id
    /\ UNCHANGED <<wGameName, wDepots, wManifests, wKey, wExc, uiPending, uiFields, wReported>>
    /\ UNCHANGED notWs

\* _generate_files_thread: game_info and game_name
WorkerGameInfo(reply) ==
    /\ wPc = "game_info"
    /\ LET game_name == GameName(GetGameInfo(reply), wApp) IN
       IF game_name.exc = "none"
       THEN /\ wGameName' = game_name.val
            /\ wPc' = "depots"
            /\ wReported' = wReported \o <<Progress[1], Progress[2]>>
            /\ UNCHANGED <<wExc, uiPending>>
       ELSE /\ WorkerRaise(game_name.exc)
            /\ wReported' = Append(wReported, Progress[1])
            /\ UNCHANGED wGameName
    /\ UNCHANGED <<wApp, wDepots, wManifests, wKey, uiState, uiFields>>
    /\ UNCHANGED notWs

\* A worker that resolves the key right after the depot lookup.
WorkerFindDepotsThenKey(env) ==
    /\ wPc = "depots"
    /\ LET depot_ids == FindDepotIds(wApp, lmAvailable, env) IN
       wDepots' = IF depot_ids = <<>> THEN <<wApp \o <<"1">>>> ELSE depot_ids
    /\ wPc' = "key"
    /\ wReported' = Append(wReported, Progress[3])
    /\ UNCHANGED <<wApp, wGameName, wManifests, wKey, wExc, uiState, uiPending, uiFields>>
    /\ UNCHANGED notWs

\* _generate_files_thread: depot_ids
WorkerFindDepots(env) ==
    /\ wPc = "depots"
    /\ LET depot_ids == FindDepotIds(wApp, lmAvailable, env) IN
       wDepots' = IF depot_ids = <<>> THEN <<wApp \o <<"1">>>> ELSE depot_ids
    /\ wPc' = "manifest"
    /\ wReported' = Append(wReported, Progress[3])
    /\ UNCHANGED <<wApp, wGameName, wManifests, wKey, wExc, uiState, uiPending, uiFields>>
    /\ UNCHANGED notWs

\* _generate_files_thread: one iteration of "for depot_id in depot_ids"
WorkerManifest(env, pad) ==
    /\ wPc = "manifest"
    /\ LET depot_id == wDepots[Len(wManifests) + 1] IN
       wManifests' = Append(wManifests, ResolveManifest(wApp, depot_id, env, pad))
    /\ IF Len(wManifests) + 1 = Len(wDepots)
       THEN wPc' = "key" /\ wReported' = Append(wReported, Progress[4])
       ELSE wPc' = "manifest" /\ UNCHANGED wReported
    /\ UNCHANGED <<wApp, wGameName, wDepots, wKey, wExc, uiState, uiPending, uiFields>>
    /\ UNCHANGED notWs

\* _generate_files_thread: encryption_key
WorkerKey(env) ==
    /\ wPc = "key"
    /\ LET encryption_key ==
               GenerateEncryptionKey(wApp, wDepots[1], uiFields.game_name, env) IN
       IF encryption_key # Raised
       THEN /\ wKey' = encryption_key
            /\ wPc' = "files"
            /\ wReported' = Append(wReported, Progress[5])
            /\ UNCHANGED <<wExc, uiPending>>
       ELSE /\ WorkerRaise("AttributeError")
            /\ UNCHANGED <<wKey, wReported>>
    /\ UNCHANGED <<wApp, wGameName, wDepots, wManifests, uiState, uiFields>>
    /\ UNCHANGED notWs

\* _generate_files_thread: the five file contents, then the completion
\* callback is scheduled
WorkerFiles(steam) ==
    /\ wPc = "files"
    /\ LET contents == GenerateFileContents(wDepots[1], lmAvailable, steam) IN
       IF contents.exc = "none"
       THEN /\ wPc' = "done"
            /\ uiPending' = "update"
            /\ wReported' = Append(wReported, Progress[6])
            /\ UNCHANGED wExc
       ELSE /\ WorkerRaise(contents.exc)
            /\ UNCHANGED wReported
    /\ UNCHANGED <<wApp, wGameName, wDepots, wManifests, wKey, uiState, uiFields>>
    /\ UNCHANGED notWs

\* The worker leaves the except block: Python unbinds e.
WorkerLeaveHandler ==
    /\ wPc = "handling"
    /\ wPc' = "failed"
    /\ UNCHANGED <<wApp, wGameName, wDepots, wManifests, wKey, wExc, uiState, uiPending, uiFields, wReported>>
    /\ UNCHANGED notWs

\* _update_generated_files, run by the UI thread
UpdateGeneratedFiles ==
    /\ uiPending = "update"
    /\ uiPending' = "none"
    /\ uiFields' = [game_name |-> wGameName, depot_id |-> wDepots[1],
                    manifest_id |-> wManifests[1], encryption_key |-> wKey]
    /\ uiState' = "completed"
    /\ UNCHANGED <<wPc, wApp, wGameName, wDepots, wManifests, wKey, wExc, wReported>>
    /\ UNCHANGED notWs

\* lambda: self._generation_error(f"Generation error: {str(e)}"), run by the
\* UI thread: once the worker has left its except block, e is unbound and the
\* lambda raises NameError before _generation_error is called.
GenerationError ==
    /\ uiPending = "error"
    /\ uiPending' = "none"
    /\ uiState' = IF wPc = "handling" THEN "error" ELSE "callback_failed"
    /\ UNCHANGED <<wPc, wApp, wGameName, wDepots, wManifests, wKey, wExc, uiFields, wReported>>
    /\ UNCHANGED notWs

\* clear_all, once the session is over
ClearAll ==
    /\ uiState \in {"warning", "completed", "error", "callback_failed"}
    /\ uiPending = "none"
    /\ wPc \in {"idle", "done", "failed"}
    /\ wPc' = "idle"
    /\ wApp' = <<>>
    /\ wGameName' = <<>>
    /\ wDepots' = <<>>
    /\ wManifests' = <<>>
    /\ wKey' = Key(<<>>, 0)
    /\ wExc' = "none"
    /\ uiState' = "idle"
    /\ uiFields' = NoFields
    /\ wReported' = <<>>
    /\ UNCHANGED uiPending
    /\ UNCHANGED notWs

CallGenerateFiles == \E entry \in AppIdEntries : GenerateFiles(entry)
RunWorkerGameInfo == \E reply \in StoreReplies : WorkerGameInfo(reply)
RunWorkerFindDepots == \E env \in DepotEnvs : WorkerFindDepots(env)
RunWorkerManifest ==
    /\ wPc = "manifest"
    /\ \E env \in ManifestEnvs :
        \E pad \in PadRandoms(wApp, wDepots[Len(wManifests) + 1], env.random) :
            WorkerManifest(env, pad)
RunWorkerKey == \E env \in SessionKeyEnvs : WorkerKey(env)
RunWorkerFiles == \E steam \in {"None", "dict", "malformed"} : WorkerFiles(steam)

-----------------------------------------------------------------------------
(* Manifest lookup, one provider at a time: _get_real_manifest_id with the  *)
(* fallback of its caller, and get_manifest_for_app.                        *)

\* The providers of each lookup, in the order the code calls them.
RealManifestProviders ==
    << "_get_manifest_from_steam_hub", "_get_manifest_from_valvepython",
       "_scrape_steamdb_manifests_page", "_scrape_steamdb_depot_page",
       "_scrape_steamdb_app_page", "_try_steamdb_api_endpoints",
       "_try_alternative_sources" >>
ManifestForAppProviders ==
    << "_get_manifest_id_from_steamdb", "_scrape_steamdb_direct",
       "_search_steam_community_databases", "_search_github_manifest_databases",
       "_search_additional_web_sources", "_search_fares_inspired_methods" >>

LookupFunctions == {"_get_real_manifest_id", "get_manifest_for_app"}

Providers(fn) ==
    IF fn = "_get_real_manifest_id" THEN RealManifestProviders ELSE ManifestForAppProviders

\* Providers that compute a manifest id instead of reading one.
SynthesizingProviders == {"_get_manifest_from_valvepython"}

\* Methods the class calls but does not define: the call raises AttributeError.
UndefinedProviders == {"_search_fares_inspired_methods"}

\* _search_github_manifest_databases: str(data['manifest'])
SearchGithubManifestDatabases(json) == IF json.found THEN json.value ELSE Zero

\* _search_additional_web_sources: matches[0] of the first pattern that
\* matches; the patterns include (\d+)
SearchAdditionalWebSources(page) ==
    IF page.found /\ IsDigits(page.value) THEN page.value ELSE Zero

\* _scrape_steamdb_direct and _search_steam_community_databases: a match of
\* (\d{15,})
ScrapeSteamdbDirect(page) ==
    IF page.found /\ IsDigits(page.value) /\ Len(page.value) >= MinScrapedLength
    THEN page.value ELSE Zero

\* _get_manifest_id_from_steamdb: 'manifest' of the first depot of the API
\* answer when it is truthy and not '0'; then matches[0] of the history and
\* depots pages, whose patterns include (\d+); then the GitHub databases and
\* the additional web sources
GetManifestIdFromSteamdb(json, page, github, web) ==
    IF json.found /\ json.value # <<>> /\ json.value # Zero THEN json.value
    ELSE IF page.found /\ IsDigits(page.value) THEN page.value
    ELSE IF SearchGithubManifestDatabases(github) # Zero
         THEN SearchGithubManifestDatabases(github)
    ELSE SearchAdditionalWebSources(web)

\* What the sources hold when one provider is asked.
LookupEnvs ==
    [json : {NotFound, Found(<<>>), Found(ShortManifest), Found(RealManifest)},
     page : {NotFound, Found(ShortManifest), Found(RealManifest)},
     github : {NotFound, Found(ShortManifest)},
     web : {NotFound, Found(<<"5">>)},
     steam_logged_in : BOOLEAN,
     random : {RandomLow, RandomHigh}]

\* (app id, depot id) pairs looked up.
LookupIds ==
    { <<<<"7", "3", "0">>, <<"7", "3", "1">>>>,
      <<Repeat("7", IdWidth + 1), Repeat("7", IdWidth + 1)>> }

\* The return value of one provider.
ProviderAnswer(provider, app_id, depot_id, env) ==
    CASE provider = "_get_manifest_from_steam_hub" ->
            GetManifestFromSteamHub(env.json, env.github)
      [] provider = "_get_manifest_from_valvepython" ->
            GetManifestFromValvepython(app_id, depot_id, env.steam_logged_in, env.random)
      [] provider \in {"_scrape_steamdb_manifests_page", "_scrape_steamdb_depot_page",
                       "_scrape_steamdb_app_page"} ->
            ScrapeSteamdbPage(env.page)
      [] provider = "_try_steamdb_api_endpoints" -> TrySteamdbApiEndpoints(env.json)
      [] provider = "_try_alternative_sources" -> TryAlternativeSources(env.page)
      [] provider = "_get_manifest_id_from_steamdb" ->
            GetManifestIdFromSteamdb(env.json, env.page, env.github, env.web)
      [] provider \in {"_scrape_steamdb_direct", "_search_steam_community_databases"} ->
            ScrapeSteamdbDirect(env.page)
      [] provider = "_search_github_manifest_databases" ->
            SearchGithubManifestDatabases(env.json)
      [] provider = "_search_additional_web_sources" ->
            SearchAdditionalWebSources(env.page)

LookupInit ==
    /\ lkPc = "idle"
    /\ lkFn = "_get_real_manifest_id"
    /\ lkIds = CHOOSE ids \in LookupIds : TRUE
    /\ lkAnswers = <<>>
    /\ lkResult = Zero
    /\ lkSource = "none"
    /\ lkManifest = <<>>

\* Entry of _get_real_manifest_id(app_id, depot_id) or get_manifest_for_app(app_id)
StartLookup(fn, ids) ==
    /\ lkPc \in {"idle", "returned", "stored"}
    /\ lkPc' = "running"
    /\ lkFn' = fn
    /\ lkIds' = ids
    /\ lkAnswers' = <<>>
    /\ lkResult' = Zero
    /\ lkSource' = "none"
    /\ lkManifest' = <<>>
    /\ UNCHANGED notLk

\* A lookup that asks every provider and keeps the first answer found.
QueryProviderFanOut(env) ==
    /\ lkPc = "running"
    /\ LET provider == Providers(lkFn)[Len(lkAnswers) + 1] IN
       IF provider \in UndefinedProviders
       THEN /\ lkPc' = "returned"
            /\ UNCHANGED <<lkAnswers, lkResult, lkSource>>
       ELSE LET manifest_id == ProviderAnswer(provider, lkIds[1], lkIds[2], env) IN
            /\ lkAnswers' = Append(lkAnswers, manifest_id)
            /\ IF manifest_id # Zero /\ lkResult = Zero
               THEN lkResult' = manifest_id /\ lkSource' = provider
               ELSE UNCHANGED <<lkResult, lkSource>>
            /\ lkPc' = IF Len(lkAnswers) + 1 = Len(Providers(lkFn))
                       THEN "returned" ELSE "running"
    /\ UNCHANGED <<lkFn, lkIds, lkManifest>>
    /\ UNCHANGED notLk

\* The next provider of the running lookup is called: an answer other than
\* "0" is returned at once; a call of an undefined method raises and the
\* lookup's except clause returns "0".
QueryProvider(env) ==
    /\ lkPc = "running"
    /\ LET provider == Providers(lkFn)[Len(lkAnswers) + 1] IN
       IF provider \in UndefinedProviders
       THEN /\ lkPc' = "returned"
            /\ UNCHANGED <<lkAnswers, lkResult, lkSource>>
       ELSE LET manifest_id == ProviderAnswer(provider, lkIds[1], lkIds[2], env) IN
            /\ lkAnswers' = Append(lkAnswers, manifest_id)
            /\ IF manifest_id # Zero
               THEN /\ lkResult' = manifest_id
                    /\ lkSource' = provider
                    /\ lkPc' = "returned"
               ELSE /\ UNCHANGED <<lkResult, lkSource>>
                    /\ lkPc' = IF Len(lkAnswers) + 1 = Len(Providers(lkFn))
                               THEN "returned" ELSE "running"
    /\ UNCHANGED <<lkFn, lkIds, lkManifest>>
    /\ UNCHANGED notLk

\* _generate_files_thread, body of the depot loop after the lookup:
\* "if manifest_id == "0": manifest_id = self._generate_realistic_manifest_id(...)",
\* then manifest_data[depot_id] = manifest_id
StoreManifest(random_part, pad) ==
    /\ lkPc = "returned"
    /\ lkFn = "_get_real_manifest_id"
    /\ lkPc' = "stored"
    /\ IF lkResult = Zero
       THEN /\ lkManifest' = GenerateRealisticManifestId(lkIds[1], lkIds[2], random_part, pad)
            /\ lkSource' = "_generate_realistic_manifest_id"
       ELSE /\ lkManifest' = lkResult
            /\ UNCHANGED lkSource
    /\ UNCHANGED <<lkFn, lkIds, lkAnswers, lkResult>>
    /\ UNCHANGED notLk

CallStartLookup == \E fn \in LookupFunctions, ids \in LookupIds : StartLookup(fn, ids)
RunQueryProvider == \E env \in LookupEnvs : QueryProvider(env)
RunStoreManifest ==
    \E random_part \in {RandomLow, RandomHigh} :
        \E pad \in PadRandoms(lkIds[1], lkIds[2], random_part) :
            StoreManifest(random_part, pad)

-----------------------------------------------------------------------------
(* Key search: SteamToolsGenerator.auto_find_keys, the worker               *)
(* _auto_find_keys_thread and the callback _update_auto_find_results        *)
(*                                                                          *)
(* found_keys is a Python dictionary depot id -> key data: its items are    *)
(* kept as a sequence in insertion order.                                   *)

\* One item of found_keys.
KeyData(depot_id, key, manifest, source) ==
    [depot_id |-> depot_id, key |-> key, manifest |-> manifest, source |-> source]

\* for depot_id, key_data in more.items(): found[depot_id] = key_data
RECURSIVE MergeReplacing(_, _)
MergeReplacing(found, more) ==
    IF more = <<>> THEN found
    ELSE MergeReplacing(IF \E i \in 1..Len(found) : found[i].depot_id = Head(more).depot_id
                        THEN [i \in 1..Len(found) |->
                                 IF found[i].depot_id = Head(more).depot_id
                                 THEN Head(more) ELSE found[i]]
                        ELSE Append(found, Head(more)),
                        Tail(more))

\* for depot_id, key_data in more.items(): if depot_id not in found: found[depot_id] = key_data
RECURSIVE MergeNew(_, _)
MergeNew(found, more) ==
    IF more = <<>> THEN found
    ELSE MergeNew(IF \E i \in 1..Len(found) : found[i].depot_id = Head(more).depot_id
                  THEN found ELSE Append(found, Head(more)),
                  Tail(more))

\* Method 1: the depots of the SteamDB API reply whose 'key' is truthy and not '0'.
\* The reply followed has one depot, app_id + "1".
SteamdbApiKeys(app_id, steamdb) ==
    IF steamdb.found /\ steamdb.value # <<>> /\ steamdb.value # Zero
    THEN <<KeyData(app_id \o <<"1">>, steamdb.value, Zero, "SteamDB API")>>
    ELSE <<>>

StarTruckerKey ==
    <<"a", "6", "9", "2", "f", "8", "f", "f", "e", "9", "b", "6", "d", "f", "4", "2",
    "b", "1", "c", "9", "3", "4", "4", "a", "8", "d", "1", "f", "0", "f", "9", "2",
    "1", "0", "9", "f", "c", "6", "7", "c", "1", "d", "0", "9", "4", "4", "1", "4",
    "b", "7", "6", "7", "b", "5", "e", "6", "a", "6", "4", "1", "d", "2", "7", "a">>

\* community_sources of _get_community_keys
CommunitySources(app_id) ==
    IF app_id = <<"2", "3", "8", "0", "0", "5", "0">>
    THEN <<KeyData(<<"2", "3", "8", "0", "0", "5", "1">>, StarTruckerKey,
                   <<"5", "9", "6", "5", "5", "7", "8", "6", "1", "5", "4", "6", "8", "7", "4", "0", "5", "0", "8">>,
                   "Community Database")>>
    ELSE IF app_id = <<"7", "3", "0">>
    THEN <<KeyData(<<"7", "3", "1">>, Repeat("0", KeyLength), Zero, "Community Database")>>
    ELSE IF app_id = <<"4", "4", "0">>
    THEN <<KeyData(<<"4", "4", "1">>, Repeat("0", KeyLength), Zero, "Community Database")>>
    ELSE <<>>

\* _search_github_key_databases: the single key format, data['key'] as it is
SearchGithubKeyDatabases(app_id, github) ==
    IF github.found
    THEN <<KeyData(app_id \o <<"1">>, github.value, Zero, "GitHub: steam-depot-online")>>
    ELSE <<>>

\* re.findall(r'[a-fA-F0-9]{64}', text): the positions where a run of 64 hex
\* characters starts
HexRunStarts(text) ==
    {i \in 1..(Len(text) - KeyLength + 1) :
        \A j \in i..(i + KeyLength - 1) : text[j] \in HexChars}

\* _search_cysaw_org: keys[0], the leftmost match
SearchCysawOrg(app_id, cysaw) ==
    IF cysaw.found /\ HexRunStarts(cysaw.value) # {}
    THEN LET first == CHOOSE i \in HexRunStarts(cysaw.value) :
                          \A k \in HexRunStarts(cysaw.value) : i <= k
         IN  <<KeyData(app_id \o <<"1">>, SubSeq(cysaw.value, first, first + KeyLength - 1),
                       Zero, "cysaw.org")>>
    ELSE <<>>

\* _get_community_keys
GetCommunityKeys(app_id, env) ==
    MergeNew(MergeNew(CommunitySources(app_id), SearchGithubKeyDatabases(app_id, env.github)),
             SearchCysawOrg(app_id, env.cysaw))

\* Text typed into the App ID field.
KeySearchEntries ==
    {<<>>, <<"7", "3", "0", " ">>, <<"7", "a">>, <<"2", "3", "8", "0", "0", "5", "0">>}

\* What the SteamDB API answers to method 1: NotFound is a reply without a key.
SteamdbReplies ==
    {NotFound, Found(Zero), Found(Repeat("b", KeyLength))}

\* What the community sources answer: NotFound is a failed request or a reply
\* without a key.
KeySearchEnvs ==
    [github : {NotFound, Found(<<"k", "e", "y">>)},
     cysaw : {NotFound, Found(<<"k">> \o Repeat("A", KeyLength))}]

\* The first depot id SteamDB lists for the app, or none
SteamdbDepots == {NotFound, Found(<<"7", "3", "1">>)}

\* _get_depot_id_from_steamdb
GetDepotIdFromSteamdb(app_id, depot) ==
    IF depot.found THEN depot.value ELSE app_id \o <<"1">>

\* A 19-digit manifest id
FetchedManifest == Repeat("5", 19)

\* The argument-less callback
NoCallback == [fn |-> "none", game_name |-> "", manifest_id |-> <<>>, depot_id |-> <<>>]

\* lambda g=game_name, m=manifest_id, d=depot_id: self._update_game_info(g, m, d)
UpdateGameInfoCallback(g, m, d) ==
    [fn |-> "_update_game_info", game_name |-> g, manifest_id |-> m, depot_id |-> d]

\* lambda: self._fetch_error("...")
FetchErrorCallback == [NoCallback EXCEPT !.fn = "_fetch_error"]

\* lambda: self._fetch_error(f"Error: {str(e)}"), made in the except block
\* whose name e is unbound when the block ends
FetchErrorOfExceptionCallback == [NoCallback EXCEPT !.fn = "_fetch_error(e)"]

\* What the fetch worker meets.
FetchOutcomes == {"success", "not found", "http failure", "exception"}

KeySearchInit ==
    /\ kfPc = "idle"
    /\ kfApp = <<>>
    /\ kfFound = <<>>
    /\ kfDepotId = <<>>
    /\ kfManifestId = <<>>
    /\ kfKey = <<>>
    /\ kfSource = "none"
    /\ kfMethodsTried = <<>>
    /\ kfAutoFindBtn = "normal"
    /\ kfFetchPc = "idle"
    /\ kfFetchApp = <<>>
    /\ kfFetchBtn = "normal"
    /\ kfCallback = NoCallback
    /\ kfGameName = ""

kfFetch == <<kfFetchPc, kfFetchApp, kfFetchBtn, kfCallback, kfGameName>>
kfForm == <<kfDepotId, kfManifestId, kfKey, kfSource>>

\* auto_find_keys, run by the UI thread when the enabled button is pressed.
\* One search worker is followed at a time.
AutoFindKeys(entry) ==
    /\ kfAutoFindBtn = "normal"
    /\ kfPc = "idle"
    /\ IF Strip(entry) = <<>>
       THEN UNCHANGED <<kfPc, kfApp, kfAutoFindBtn>>
       ELSE /\ kfAutoFindBtn' = "disabled"
            /\ kfPc' = "searching"
            /\ kfApp' = Strip(entry)
    /\ UNCHANGED <<kfFound, kfMethodsTried, kfForm, kfFetch>>
    /\ UNCHANGED notKf

\* _auto_find_keys_thread, method 1: found_keys = {} and the SteamDB API;
\* raised is an exception inside its try block
SearchSteamdbApi(steamdb, raised) ==
    /\ kfPc = "searching"
    /\ kfPc' = "community"
    /\ kfFound' = (IF raised THEN <<>> ELSE SteamdbApiKeys(kfApp, steamdb))
    /\ kfMethodsTried' = (IF raised THEN <<"SteamDB API", "SteamDB API (Error)">>
                          ELSE <<"SteamDB API">>)
    /\ UNCHANGED <<kfApp, kfAutoFindBtn, kfForm, kfFetch>>
    /\ UNCHANGED notKf

\* _auto_find_keys_thread, method 2: the community database
SearchCommunityDatabase(env) ==
    /\ kfPc = "community"
    /\ kfPc' = "fares"
    /\ kfFound' = MergeNew(kfFound, GetCommunityKeys(kfApp, env))
    /\ kfMethodsTried' = Append(kfMethodsTried, "Community Database")
    /\ UNCHANGED <<kfApp, kfAutoFindBtn, kfForm, kfFetch>>
    /\ UNCHANGED notKf

\* _auto_find_keys_thread, method 3: with a depot id other than app_id + "1"
\* it calls _search_fares_style_decryption_keys, which no class defines, and
\* the AttributeError is caught; otherwise it skips the call
SearchFaresStyle(depot) ==
    /\ kfPc = "fares"
    /\ kfPc' = "ai"
    /\ kfMethodsTried' =
          (IF GetDepotIdFromSteamdb(kfApp, depot) # kfApp \o <<"1">>
           THEN kfMethodsTried \o <<"Fares.top-style Search", "Fares.top-style (Error)">>
           ELSE Append(kfMethodsTried, "Fares.top-style Search"))
    /\ UNCHANGED <<kfApp, kfFound, kfAutoFindBtn, kfForm, kfFetch>>
    /\ UNCHANGED notKf

\* _auto_find_keys_thread, method 4: _search_ai_tools returns {}; then
\* root.after(0, lambda: self._update_auto_find_results(found_keys, methods_tried))
SearchAiTools ==
    /\ kfPc = "ai"
    /\ kfPc' = "scheduled"
    /\ kfFound' = MergeNew(kfFound, <<>>)
    /\ kfMethodsTried' = Append(kfMethodsTried, "AI Tools Search")
    /\ UNCHANGED <<kfApp, kfAutoFindBtn, kfForm, kfFetch>>
    /\ UNCHANGED notKf

\* _update_auto_find_results setting depot_id whatever it holds
UpdateAutoFindResultsSettingDepot ==
    /\ kfPc = "scheduled"
    /\ kfPc' = "idle"
    /\ kfAutoFindBtn' = "normal"
    /\ IF kfFound # <<>>
       THEN /\ kfDepotId' = kfFound[1].depot_id
            /\ kfKey' = kfFound[1].key
            /\ kfSource' = kfFound[1].source
            /\ kfManifestId' = (IF kfFound[1].manifest # Zero /\ kfManifestId = <<>>
                                THEN kfFound[1].manifest ELSE kfManifestId)
       ELSE UNCHANGED <<kfDepotId, kfKey, kfSource, kfManifestId>>
    /\ kfApp' = <<>>
    /\ kfFound' = <<>>
    /\ kfMethodsTried' = <<>>
    /\ UNCHANGED kfFetch
    /\ UNCHANGED notKf

\* _update_auto_find_results, run by the UI thread; found_keys and
\* methods_tried, the lambda's variables, are gone when it has run
UpdateAutoFindResults ==
    /\ kfPc = "scheduled"
    /\ kfPc' = "idle"
    /\ kfAutoFindBtn' = "normal"
    /\ IF kfFound # <<>>
       THEN /\ kfDepotId' = (IF kfDepotId = <<>> THEN kfFound[1].depot_id ELSE kfDepotId)
            /\ kfKey' = kfFound[1].key
            /\ kfSource' = kfFound[1].source
            /\ kfManifestId' = (IF kfFound[1].manifest # Zero /\ kfManifestId = <<>>
                                THEN kfFound[1].manifest ELSE kfManifestId)
       ELSE UNCHANGED <<kfDepotId, kfKey, kfSource, kfManifestId>>
    /\ kfApp' = <<>>
    /\ kfFound' = <<>>
    /\ kfMethodsTried' = <<>>
    /\ UNCHANGED kfFetch
    /\ UNCHANGED notKf

\* fetch_game_info, run by the UI thread when the enabled button is pressed
FetchGameInfo(entry) ==
    /\ kfFetchBtn = "normal"
    /\ kfFetchPc = "idle"
    /\ IF Strip(entry) = <<>> \/ ~IsDigits(Strip(entry))
       THEN UNCHANGED <<kfFetchPc, kfFetchApp, kfFetchBtn>>
       ELSE /\ kfFetchBtn' = "disabled"
            /\ kfFetchPc' = "fetching"
            /\ kfFetchApp' = Strip(entry)
    /\ UNCHANGED <<kfCallback, kfGameName, kfPc, kfApp, kfFound, kfMethodsTried,
                   kfAutoFindBtn, kfForm>>
    /\ UNCHANGED notKf

\* _fetch_game_info_thread: the callback it hands to root.after
FetchGameInfoThread(outcome, game_name, manifest_id, depot) ==
    /\ kfFetchPc = "fetching"
    /\ kfFetchPc' = "scheduled"
    /\ kfCallback' =
          (IF outcome = "success"
           THEN UpdateGameInfoCallback(game_name, manifest_id,
                                       GetDepotIdFromSteamdb(kfFetchApp, depot))
           ELSE IF outcome = "exception" THEN FetchErrorOfExceptionCallback
           ELSE FetchErrorCallback)
    /\ UNCHANGED <<kfFetchApp, kfFetchBtn, kfGameName, kfPc, kfApp, kfFound,
                   kfMethodsTried, kfAutoFindBtn, kfForm>>
    /\ UNCHANGED notKf

\* _update_game_info, run by the UI thread; it starts a search worker without
\* touching auto_find_btn
UpdateGameInfo ==
    /\ kfFetchPc = "scheduled"
    /\ kfCallback.fn = "_update_game_info"
    /\ kfFetchPc' = "idle"
    /\ kfCallback' = NoCallback
    /\ kfGameName' = kfCallback.game_name
    /\ kfManifestId' = (IF kfCallback.manifest_id # <<>> /\ kfCallback.manifest_id # Zero
                        THEN kfCallback.manifest_id ELSE kfManifestId)
    /\ kfDepotId' = (IF kfCallback.depot_id # <<>> THEN kfCallback.depot_id ELSE kfDepotId)
    /\ kfFetchBtn' = "normal"
    /\ IF kfPc = "idle"
       THEN /\ kfPc' = "searching"
            /\ kfApp' = kfFetchApp
       ELSE UNCHANGED <<kfPc, kfApp>>
    /\ kfFetchApp' = <<>>
    /\ UNCHANGED <<kfFound, kfMethodsTried, kfAutoFindBtn, kfKey, kfSource>>
    /\ UNCHANGED notKf

\* _fetch_error, run by the UI thread
FetchError ==
    /\ kfFetchPc = "scheduled"
    /\ kfCallback.fn = "_fetch_error"
    /\ kfFetchPc' = "idle"
    /\ kfCallback' = NoCallback
    /\ kfFetchBtn' = "normal"
    /\ kfFetchApp' = <<>>
    /\ UNCHANGED <<kfGameName, kfPc, kfApp, kfFound, kfMethodsTried, kfAutoFindBtn, kfForm>>
    /\ UNCHANGED notKf

\* The lambda of the except block, run by the UI thread.  It reads e when it
\* runs: bound is whether the worker is still inside the except block then.
\* With e unbound the lambda raises NameError and _fetch_error is not called.
FetchErrorOfException(bound) ==
    /\ kfFetchPc = "scheduled"
    /\ kfCallback.fn = "_fetch_error(e)"
    /\ kfFetchPc' = "idle"
    /\ kfCallback' = NoCallback
    /\ kfFetchBtn' = (IF bound THEN "normal" ELSE kfFetchBtn)
    /\ kfFetchApp' = <<>>
    /\ UNCHANGED <<kfGameName, kfPc, kfApp, kfFound, kfMethodsTried, kfAutoFindBtn, kfForm>>
    /\ UNCHANGED notKf

CallAutoFindKeys == \E entry \in KeySearchEntries : AutoFindKeys(entry)
RunSearchSteamdbApi ==
    \E steamdb \in SteamdbReplies, raised \in BOOLEAN : SearchSteamdbApi(steamdb, raised)
RunSearchCommunityDatabase == \E env \in KeySearchEnvs : SearchCommunityDatabase(env)
RunSearchFaresStyle == \E depot \in SteamdbDepots : SearchFaresStyle(depot)
CallFetchGameInfo == \E entry \in KeySearchEntries : FetchGameInfo(entry)
RunFetchGameInfoThread ==
    \E outcome \in FetchOutcomes, game_name \in {"Star Trucker"},
       manifest_id \in {Zero, FetchedManifest}, depot \in SteamdbDepots :
        FetchGameInfoThread(outcome, game_name, manifest_id, depot)
RunFetchErrorOfException == \E bound \in BOOLEAN : FetchErrorOfException(bound)

-----------------------------------------------------------------------------
(* Overlapping sessions: generate_files starts one worker thread per call,  *)
(* and every worker stores its files in the attributes of the one           *)
(* SteamToolsGenerator object.                                              *)
(*                                                                          *)
(* A worker's file contents and the arguments of its callback are computed  *)
(* from its own local variables; a stored or displayed value is recorded as  *)
(* the number of the session whose locals it was computed from, 0 for none. *)
(* Threads switch between statements.                                       *)

\* Sessions followed.
MaxSessions == 2

Sessions == 1..MaxSessions

\* The attributes the worker assigns, in program order.
GeneratedOutputs ==
    <<"generated_lua", "generated_json", "generated_vdf", "generated_manifest_info",
      "generated_steam_manifest">>

OverlapInit ==
    /\ ovPc = [s \in Sessions |-> "idle"]
    /\ ovStores = [s \in Sessions |-> 0]
    /\ ovGenerated = [a \in {GeneratedOutputs[i] : i \in 1..Len(GeneratedOutputs)} |-> 0]
    /\ ovQueue = <<>>
    /\ ovDisplayed = 0

\* generate_files, run by the UI thread: thread.start()
OvGenerateFiles(s) ==
    /\ ovPc[s] = "idle"
    /\ \A t \in Sessions : t < s => ovPc[t] # "idle"
    /\ ovPc' = [ovPc EXCEPT ![s] = "running"]
    /\ UNCHANGED <<ovStores, ovGenerated, ovQueue, ovDisplayed>>
    /\ UNCHANGED notOv

\* worker s: game info, depots, manifests, key and the file contents, all
\* kept in local variables
OvGenerateContents(s) ==
    /\ ovPc[s] = "running"
    /\ ovPc' = [ovPc EXCEPT ![s] = "storing"]
    /\ UNCHANGED <<ovStores, ovGenerated, ovQueue, ovDisplayed>>
    /\ UNCHANGED notOv

\* worker s: the next of the five assignments self.generated_... = ...
OvStoreGenerated(s) ==
    /\ ovPc[s] = "storing"
    /\ ovStores[s] < Len(GeneratedOutputs)
    /\ ovStores' = [ovStores EXCEPT ![s] = ovStores[s] + 1]
    /\ ovGenerated' = [ovGenerated EXCEPT ![GeneratedOutputs[ovStores[s] + 1]] = s]
    /\ UNCHANGED <<ovPc, ovQueue, ovDisplayed>>
    /\ UNCHANGED notOv

\* worker s: root.after(0, lambda: self._update_generated_files(...)), and
\* the thread ends
OvScheduleUpdate(s) ==
    /\ ovPc[s] = "storing"
    /\ ovStores[s] = Len(GeneratedOutputs)
    /\ ovPc' = [ovPc EXCEPT ![s] = "finished"]
    /\ ovQueue' = Append(ovQueue, s)
    /\ UNCHANGED <<ovStores, ovGenerated, ovDisplayed>>
    /\ UNCHANGED notOv

\* _update_generated_files, run by the UI thread for the oldest scheduled
\* callback: the form shows the arguments of that callback
OvUpdateGeneratedFiles ==
    /\ ovQueue # <<>>
    /\ ovDisplayed' = Head(ovQueue)
    /\ ovQueue' = Tail(ovQueue)
    /\ UNCHANGED <<ovPc, ovStores, ovGenerated>>
    /\ UNCHANGED notOv

CallOvGenerateFiles == \E s \in Sessions : OvGenerateFiles(s)
RunOvGenerateContents == \E s \in Sessions : OvGenerateContents(s)
RunOvStoreGenerated == \E s \in Sessions : OvStoreGenerated(s)
RunOvScheduleUpdate == \E s \in Sessions : OvScheduleUpdate(s)

-----------------------------------------------------------------------------
(* Game database: SteamGameDatabase (game_database.py)                      *)
(*                                                                          *)
(* self.games is a Python dictionary: its items are kept here as a sequence *)
(* of (app_id, info) pairs in insertion order, one pair per app id.         *)

\* Largest limit passed to get_popular_games.
MaxLimit == 25

\* One item of self.games.
Game(app_id, name, genre, developer, release_year) ==
    [app_id |-> app_id,
     info |-> [name |-> name, genre |-> genre, developer |-> developer,
               release_year |-> release_year]]

\* _load_game_database: the dictionary literal; a key written twice keeps its
\* first position and its last value.
LoadGameDatabase ==
    <<
      Game("730", "Counter-Strike 2", "FPS", "Valve", 2023),
      Game("570", "Dota 2", "MOBA", "Valve", 2013),
      Game("440", "Team Fortress 2", "FPS", "Valve", 2007),
      Game("1172470", "Apex Legends", "Battle Royale", "Respawn Entertainment", 2020),
      Game("271590", "Grand Theft Auto V", "Action", "Rockstar Games", 2015),
      Game("1244460", "Cyberpunk 2077", "RPG", "CD Projekt RED", 2020),
      Game("1091500", "Cyberpunk 2077", "RPG", "CD Projekt RED", 2020),
      Game("1174180", "Red Dead Redemption 2", "Action", "Rockstar Games", 2019),
      Game("1240440", "Hogwarts Legacy", "RPG", "Avalanche Software", 2023),
      Game("1086940", "Baldur's Gate 3", "RPG", "Larian Studios", 2023),
      Game("413150", "Stardew Valley", "Simulation", "ConcernedApe", 2016),
      Game("105600", "Terraria", "Adventure", "Re-Logic", 2011),
      Game("239140", "Dying Light", "Action", "Techland", 2015),
      Game("1097150", "Fallout 76", "RPG", "Bethesda Game Studios", 2018),
      Game("236850", "Europa Universalis IV", "Strategy", "Paradox Development Studio", 2013),
      Game("394360", "Hearts of Iron IV", "Strategy", "Paradox Development Studio", 2016),
      Game("289070", "Sid Meier's Civilization VI", "Strategy", "Firaxis Games", 2016),
      Game("8930", "Sid Meier's Civilization V", "Strategy", "Firaxis Games", 2010),
      Game("814380", "Sekiro: Shadows Die Twice", "Action", "FromSoftware", 2019),
      Game("346110", "ARK: Survival Evolved", "Survival", "Studio Wildcard", 2017),
      Game("252490", "Rust", "Survival", "Facepunch Studios", 2018),
      Game("294100", "RimWorld", "Simulation", "Ludeon Studios", 2018)
    >>

\* The items of games whose key is app_id (none or one).
ItemsOf(games, app_id) == SelectSeq(games, LAMBDA item : item.app_id = app_id)

\* self.games.get(app_id): <<>> is None
GetGameInfoOf(games, app_id) ==
    IF ItemsOf(games, app_id) = <<>> THEN <<>> ELSE <<ItemsOf(games, app_id)[1].info>>

\* self.games[app_id] = {...}: a known key keeps its position, a new one is
\* appended.
AddGame(games, app_id, name, genre, developer, release_year) ==
    LET item == Game(app_id, name, genre, developer, release_year) IN
    IF ItemsOf(games, app_id) = <<>> THEN Append(games, item)
    ELSE [i \in 1..Len(games) |-> IF games[i].app_id = app_id THEN item ELSE games[i]]

\* sorted(..., key=release_year) without reverse=True: oldest first, items of
\* equal year in their order in items.
RECURSIVE SortedOldestFirst(_)
SortedOldestFirst(items) ==
    IF items = <<>> THEN <<>>
    ELSE LET n == Len(items)
             last == items[n]
             rest == SortedOldestFirst(SubSeq(items, 1, n - 1))
             keep == SelectSeq(rest, LAMBDA item : item.info.release_year <= last.info.release_year)
             move == SelectSeq(rest, LAMBDA item : item.info.release_year > last.info.release_year)
         IN  keep \o <<last>> \o move

\* sorted(self.games.items(), key=lambda x: x[1]['release_year'], reverse=True):
\* newest first, items of equal year in their order in items (the sort is
\* stable, also when reversed).
RECURSIVE SortedNewestFirst(_)
SortedNewestFirst(items) ==
    IF items = <<>> THEN <<>>
    ELSE LET n == Len(items)
             last == items[n]
             rest == SortedNewestFirst(SubSeq(items, 1, n - 1))
             keep == SelectSeq(rest, LAMBDA item : item.info.release_year >= last.info.release_year)
             move == SelectSeq(rest, LAMBDA item : item.info.release_year < last.info.release_year)
         IN  keep \o <<last>> \o move

\* s[:limit] of a Python list: a negative limit counts from the end.
SliceTo(s, limit) ==
    IF limit >= 0 THEN SubSeq(s, 1, Min(limit, Len(s)))
    ELSE SubSeq(s, 1, Len(s) + limit)

\* get_popular_games
GetPopularGames(games, limit) == SliceTo(SortedNewestFirst(games), limit)

\* Arguments of the calls followed: a known app id and a new one, a year
\* older than, equal to and newer than the years of the loaded database.
DbAppIds == {"730", "2000000"}
DbNames == {"A", "B"}
DbGenres == {"FPS"}
DbDevelopers == {"Valve"}
DbYears == {0, 2023, 2030}
DbLimits == 0..MaxLimit

DatabaseInit ==
    /\ dbGames = LoadGameDatabase
    /\ dbCall = [op |-> "none"]
    /\ dbReturn = <<>>
    /\ dbLast = [app_id \in DbAppIds |-> <<>>]

\* add_game(app_id, name, genre, developer, release_year); returns None
DbAddGame(app_id, name, genre, developer, release_year) ==
    /\ dbGames' = AddGame(dbGames, app_id, name, genre, developer, release_year)
    /\ dbCall' = [op |-> "add_game", app_id |-> app_id]
    /\ dbReturn' = <<>>
    /\ dbLast' = [dbLast EXCEPT ![app_id] =
                      <<Game(app_id, name, genre, developer, release_year).info>>]
    /\ UNCHANGED notDb

\* get_popular_games(limit)
DbGetPopularGames(limit) ==
    /\ dbCall' = [op |-> "get_popular_games", limit |-> limit]
    /\ dbReturn' = GetPopularGames(dbGames, limit)
    /\ UNCHANGED <<dbGames, dbLast>>
    /\ UNCHANGED notDb

\* get_game_info(app_id)
DbGetGameInfo(app_id) ==
    /\ dbCall' = [op |-> "get_game_info", app_id |-> app_id]
    /\ dbReturn' = GetGameInfoOf(dbGames, app_id)
    /\ UNCHANGED <<dbGames, dbLast>>
    /\ UNCHANGED notDb

CallAddGame ==
    \E app_id \in DbAppIds, name \in DbNames, genre \in DbGenres,
       developer \in DbDevelopers, release_year \in DbYears :
        DbAddGame(app_id, name, genre, developer, release_year)
CallGetPopularGames == \E limit \in DbLimits : DbGetPopularGames(limit)
CallGetGameInfo == \E app_id \in DbAppIds : DbGetGameInfo(app_id)

-----------------------------------------------------------------------------
(* Pattern scan: the loops "for pattern in patterns: matches = re.findall"  *)
(* of _scrape_steamdb_manifests_page, _search_additional_web_sources and    *)
(* _try_alternative_sources, run on one response.                           *)
(*                                                                          *)
(* A response is given by what re.findall returns on it for each pattern of *)
(* the list, in the order of the list.                                      *)

ScanFunctions ==
    {"_scrape_steamdb_manifests_page", "_search_additional_web_sources",
     "_try_alternative_sources"}

\* Fewest digits the group of each pattern matches: (\d+) is 1, (\d{10,}) is
\* 10, (\d{15,}) and (\d{15,20}) are 15, (\d{19}) is 19.
PatternMinDigits(fn) ==
    IF fn = "_scrape_steamdb_manifests_page" THEN <<1, 1, 1, 1, 15>>
    ELSE IF fn = "_try_alternative_sources"
    THEN <<19, 19, 19, 19, 19, 19, 19, 19, 19, 19, 19>>
    ELSE <<10, 10, 10, 10, 10, 1, 1, 1, 1, 1, 1, 15, 15, 10, 10, 10, 10, 10, 10, 10,
          10, 10, 10, 10, 10, 10, 10, 10, 10, 10, 10, 10, 10, 10, 10, 10, 10, 10, 10, 10,
          10, 10, 10, 10, 10, 10, 10, 10, 10, 10, 10, 10, 10, 10, 10, 10, 10, 10, 10, 10,
          10, 10, 10, 10, 10, 10, 10, 10, 10, 10, 10, 10, 10, 10, 10, 10, 10, 10, 10, 10,
          10, 10, 10, 10, 10, 10, 10, 10, 10, 10>>

PatternCount(fn) == Len(PatternMinDigits(fn))

\* A run of n digits.
DigitRun(n) == Repeat("7", n)

\* What re.findall can return for pattern i: nothing, one match of the fewest
\* digits, one of 19 digits, or the short one followed by the long one.
MatchLists(fn, i) ==
    LET short == DigitRun(PatternMinDigits(fn)[i])
        long == DigitRun(ManifestLength)
    IN  {<<>>, <<short>>, <<long>>, <<short, long>>}

\* Responses followed.  The 90 patterns of _search_additional_web_sources
\* are met by responses on which no pattern matches, exactly one matches, or
\* every pattern from some position on matches.
ScanResponses(fn) ==
    IF fn = "_search_additional_web_sources"
    THEN LET n == PatternCount(fn)
             one(i) == <<DigitRun(PatternMinDigits(fn)[i])>>
         IN  {[i \in 1..n |-> <<>>]}
               \cup {[i \in 1..n |-> IF i = p THEN one(i) ELSE <<>>] : p \in 1..n}
               \cup {[i \in 1..n |-> IF i >= p THEN one(i) ELSE <<>>] : p \in 1..n}
    ELSE IF fn = "_try_alternative_sources"
    THEN [1..PatternCount(fn) -> {<<>>, <<DigitRun(ManifestLength)>>}]
    ELSE {r \in [1..PatternCount(fn) -> UNION {MatchLists(fn, i) : i \in 1..PatternCount(fn)}] :
             \A i \in 1..PatternCount(fn) : r[i] \in MatchLists(fn, i)}

\* The loop body after re.findall, deciding on the first match whatever its
\* length: if matches: return matches[0]
PatternDecidesOnAnyMatch(fn, matches) ==
    IF matches # <<>> THEN Found(matches[1]) ELSE NotFound

\* The loop body after re.findall: the value the function returns for this
\* pattern, or NotFound when the loop goes on to the next pattern.
\*   _scrape_steamdb_manifests_page: if matches: manifest_id = matches[0];
\*       if len(manifest_id) >= 15: return manifest_id
\*   _search_additional_web_sources: if matches: return matches[0]
\*   _try_alternative_sources: for match in matches:
\*       if len(match) == 19 and match.isdigit(): return match
PatternDecides(fn, matches) ==
    IF fn = "_scrape_steamdb_manifests_page"
    THEN IF matches # <<>> /\ Len(matches[1]) >= MinScrapedLength
         THEN Found(matches[1]) ELSE NotFound
    ELSE IF fn = "_search_additional_web_sources"
    THEN IF matches # <<>> THEN Found(matches[1]) ELSE NotFound
    ELSE LET ok == SelectSeq(matches, LAMBDA match : Len(match) = ManifestLength /\ IsDigits(match))
         IN  IF ok # <<>> THEN Found(ok[1]) ELSE NotFound

ScanInit ==
    /\ scPc = "idle"
    /\ scFn = "_scrape_steamdb_manifests_page"
    /\ scResponse = <<>>
    /\ scEvaluated = <<>>
    /\ scResult = Zero

\* The response arrives and the loop over the patterns starts.
StartScan(fn, response) ==
    /\ scPc = "idle"
    /\ scPc' = "scanning"
    /\ scFn' = fn
    /\ scResponse' = response
    /\ scEvaluated' = <<>>
    /\ scResult' = Zero
    /\ UNCHANGED notSc

\* One turn of the loop: re.findall with the next pattern, then the test.
EvaluatePattern ==
    /\ scPc = "scanning"
    /\ Len(scEvaluated) < PatternCount(scFn)
    /\ LET i == Len(scEvaluated) + 1
           decided == PatternDecides(scFn, scResponse[i])
       IN  /\ scEvaluated' = Append(scEvaluated, i)
           /\ IF decided.found
              THEN /\ scResult' = decided.value
                   /\ scPc' = "done"
              ELSE UNCHANGED <<scResult, scPc>>
    /\ UNCHANGED <<scFn, scResponse>>
    /\ UNCHANGED notSc

\* The loop ends without a return: no manifest id from the patterns.
EndScan ==
    /\ scPc = "scanning"
    /\ Len(scEvaluated) = PatternCount(scFn)
    /\ scPc' = "done"
    /\ UNCHANGED <<scFn, scResponse, scEvaluated, scResult>>
    /\ UNCHANGED notSc

CallStartScan == \E fn \in ScanFunctions : \E response \in ScanResponses(fn) : StartScan(fn, response)

-----------------------------------------------------------------------------
(* Extraction: SteamToolsGenerator._extract_manifest_from_json,             *)
(* SteamToolsGenerator._try_steamdb_api_endpoints and                       *)
(* HybridGameDiscovery._parse_ai_response                                   *)
(*                                                                          *)
(* A JSON value is a record [t, s, items]: t is its type, s the text of a   *)
(* string, items the entries of a dictionary (key k, value v) or of a list  *)
(* (k = "").  A response body is a record [syntax, value, lines]: syntax    *)
(* says how json.loads fares on it, value is the parsed document and lines  *)
(* are the lines of a text body, each split at '|' and stripped.            *)

JNull == [t |-> "null", s |-> <<>>, items |-> <<>>]
JStr(s) == [t |-> "str", s |-> s, items |-> <<>>]
JDict(items) == [t |-> "dict", s |-> <<>>, items |-> items]
JList(values) == [t |-> "list", s |-> <<>>, items |-> [i \in 1..Len(values) |-> [k |-> "", v |-> values[i]]]]
Entry(k, v) == [k |-> k, v |-> v]

\* key in d
HasKey(d, key) == \E i \in 1..Len(d.items) : d.items[i].k = key
\* d[key]
Get(d, key) == d.items[CHOOSE i \in 1..Len(d.items) : d.items[i].k = key].v

\* str(value) of None and of strings
PyStr(value) == IF value.t = "null" THEN <<"N", "o", "n", "e">> ELSE value.s
\* bool(value) of None and of strings
Truthy(value) == value.t = "str" /\ value.s # <<>>

\* manifest and str(manifest) != '0' and len(str(manifest)) >= 15
ManifestAccepted(manifest) ==
    Truthy(manifest) /\ PyStr(manifest) # Zero /\ Len(PyStr(manifest)) >= MinScrapedLength

\* _extract_manifest_from_json; nothing in it raises on the documents followed
RECURSIVE ExtractManifestFromJson(_, _)
ExtractManifestFromJson(data, depot_id) ==
    IF data.t # "dict" THEN Zero
    ELSE IF /\ HasKey(data, "data")
            /\ Get(data, "data").t = "dict"
            /\ HasKey(Get(data, "data"), depot_id)
            /\ Get(Get(data, "data"), depot_id).t = "dict"
            /\ HasKey(Get(Get(data, "data"), depot_id), "manifest")
            /\ ManifestAccepted(Get(Get(Get(data, "data"), depot_id), "manifest"))
    THEN PyStr(Get(Get(Get(data, "data"), depot_id), "manifest"))
    ELSE IF HasKey(data, "manifest") /\ ManifestAccepted(Get(data, "manifest"))
    THEN PyStr(Get(data, "manifest"))
    ELSE FirstNonZero(
            [i \in 1..Len(data.items) |->
                LET value == data.items[i].v IN
                IF value.t = "dict" THEN ExtractManifestFromJson(value, depot_id)
                ELSE IF value.t = "list"
                THEN FirstNonZero(
                        [j \in 1..Len(value.items) |->
                            IF value.items[j].v.t = "dict"
                            THEN ExtractManifestFromJson(value.items[j].v, depot_id)
                            ELSE Zero])
                ELSE Zero])

Body(syntax, value, lines) == [syntax |-> syntax, value |-> value, lines |-> lines]

\* json.loads(text) / response.json(): the document, or the exception.  A
\* document nested deeper than the recursion limit raises RecursionError, a
\* number of more than 4300 digits raises ValueError, and text that is no
\* JSON raises JSONDecodeError.
JsonLoads(body) ==
    IF body.syntax = "json" THEN Ok(body.value)
    ELSE IF body.syntax = "deep" THEN Raise("RecursionError")
    ELSE IF body.syntax = "bigint" THEN Raise("ValueError")
    ELSE Raise("JSONDecodeError")

\* _try_steamdb_api_endpoints, the body of the loop for one endpoint: the
\* value returned, or NotFound when the loop continues.  NoResponse is
\* _make_request returning None.
NoResponse == Body("none", JNull, <<>>)
EndpointResult(reply) ==
    IF reply = NoResponse THEN NotFound
    ELSE LET parsed == JsonLoads(reply) IN
         IF parsed.exc # "none" THEN NotFound
         ELSE LET data == parsed.val IN
              IF data.t # "dict" THEN NotFound
              ELSE IF HasKey(data, "manifest") THEN Found(PyStr(Get(data, "manifest")))
              ELSE IF HasKey(data, "depots")
              THEN IF Get(data, "depots").t # "dict" THEN NotFound
                   ELSE LET depots == Get(data, "depots").items
                            hits == SelectSeq(depots,
                                        LAMBDA e : e.v.t = "dict" /\ HasKey(e.v, "manifest"))
                        IN  IF hits # <<>> THEN Found(PyStr(Get(hits[1].v, "manifest")))
                            ELSE NotFound
              ELSE NotFound

\* _try_steamdb_api_endpoints: the first endpoint that returns decides
ApiEndpointsResult(replies) ==
    LET results == [i \in 1..Len(replies) |-> EndpointResult(replies[i])]
        hits == SelectSeq(results, LAMBDA r : r.found)
    IN  IF hits # <<>> THEN Ok(hits[1].value) ELSE Ok(Zero)

\* One game of the list _parse_ai_response returns; genre, developer and
\* release year take their defaults.
AiGame(app_id, name) == [app_id |-> app_id, name |-> name]

\* The JSON branch: the items that are dictionaries with 'app_id' and 'name'
GamesOfJson(data) ==
    IF data.t # "list" THEN <<>>
    ELSE LET items == SelectSeq(data.items,
                          LAMBDA e : e.v.t = "dict" /\ HasKey(e.v, "app_id") /\ HasKey(e.v, "name"))
         IN  [i \in 1..Len(items) |->
                 AiGame(PyStr(Get(items[i].v, "app_id")), PyStr(Get(items[i].v, "name")))]

\* The pipe-separated fallback: lines with '|' (two parts or more) that do
\* not start with '#', whose app id is numeric and whose name is not empty
GamesOfLines(lines) ==
    LET good == SelectSeq(lines,
                    LAMBDA parts : /\ Len(parts) >= 2
                                   /\ (parts[1] = <<>> \/ parts[1][1] # "#")
                                   /\ IsDigits(parts[1])
                                   /\ parts[2] # <<>>)
    IN  [i \in 1..Len(good) |-> AiGame(good[i][1], good[i][2])]

\* except (json.JSONDecodeError, TypeError)
ParseCatches == {"JSONDecodeError", "TypeError"}

\* _parse_ai_response
ParseAiResponse(response) ==
    IF response.syntax \in {"empty", "blank"} THEN Ok(<<>>)
    ELSE LET parsed == JsonLoads(response) IN
         IF parsed.exc = "none" THEN Ok(GamesOfJson(parsed.val))
         ELSE IF parsed.exc \in ParseCatches THEN Ok(GamesOfLines(response.lines))
         ELSE Raise(parsed.exc)

\* Values a 'manifest' entry holds: null, "0", a short and a long number.
ManifestValues == {JNull, JStr(Zero), JStr(ShortManifest), JStr(RealManifest)}

\* Documents followed: a manifest at each place the functions look, and
\* documents of another type or nesting.
JsonDocuments ==
    {JNull, JStr(<<"x">>), JList(<<>>), JDict(<<>>),
     JDict(<<Entry("depots", JList(<<>>))>>),
     JDict(<<Entry("data", JStr(<<"x">>))>>),
     JList(<<JDict(<<Entry("app_id", JStr(<<"7", "3", "0">>)), Entry("name", JStr(<<"C", "S">>))>>),
             JStr(<<"x">>)>>),
     JList(<<JDict(<<Entry("app_id", JStr(<<"7", "3", "0">>))>>)>>)}
    \cup {JDict(<<Entry("manifest", m)>>) : m \in ManifestValues}
    \cup {JDict(<<Entry("data", JDict(<<Entry("731", JDict(<<Entry("manifest", m)>>))>>))>>) :
              m \in ManifestValues}
    \cup {JDict(<<Entry("depots", JDict(<<Entry("731", JDict(<<Entry("manifest", m)>>))>>))>>) :
              m \in ManifestValues}
    \cup {JDict(<<Entry("a", JDict(<<Entry("manifest", m)>>))>>) : m \in ManifestValues}
    \cup {JDict(<<Entry("a", JList(<<JStr(<<"x">>), JDict(<<Entry("manifest", m)>>)>>))>>) :
              m \in ManifestValues}

\* Response bodies followed.
ResponseBodies ==
    {Body("json", doc, <<>>) : doc \in JsonDocuments}
    \cup {Body("empty", JNull, <<>>), Body("blank", JNull, <<>>),
          Body("deep", JNull, << <<Repeat("[", 2)>> >>),
          Body("bigint", JNull, << <<Repeat("9", 2)>> >>),
          Body("text", JNull, << <<<<"n", "o">>>> >>),
          Body("text", JNull, << <<<<"7", "3", "0">>, <<"C", "S">>>>, <<<<"#">>, <<"x">>>>,
                                 <<<<"x">>, <<"y">>>>, <<<<"4", "4", "0">>, <<>>>> >>)}

ExtractionDepotIds == {"731", "732"}

ExtractionInit ==
    /\ exFn = "none"
    /\ exBody = NoResponse
    /\ exResult = Ok(Zero)

\* _extract_manifest_from_json(data, depot_id) on a parsed document
CallExtractManifestFromJson(body, depot_id) ==
    /\ body.syntax = "json"
    /\ exFn' = "_extract_manifest_from_json"
    /\ exBody' = body
    /\ exResult' = Ok(ExtractManifestFromJson(body.value, depot_id))
    /\ UNCHANGED notEx

\* _try_steamdb_api_endpoints: the first endpoint answers first, the other
\* three answer rest
CallTrySteamdbApiEndpoints(first, rest) ==
    /\ exFn' = "_try_steamdb_api_endpoints"
    /\ exBody' = first
    /\ exResult' = ApiEndpointsResult(<<first, rest, rest, rest>>)
    /\ UNCHANGED notEx

\* _parse_ai_response(response)
CallParseAiResponse(response) ==
    /\ exFn' = "_parse_ai_response"
    /\ exBody' = response
    /\ exResult' = ParseAiResponse(response)
    /\ UNCHANGED notEx

RunExtractManifestFromJson ==
    \E body \in ResponseBodies, depot_id \in ExtractionDepotIds :
        CallExtractManifestFromJson(body, depot_id)
RunTrySteamdbApiEndpoints ==
    \E first \in ResponseBodies \cup {NoResponse} :
        \E rest \in {NoResponse, first} : CallTrySteamdbApiEndpoints(first, rest)
RunParseAiResponse == \E response \in ResponseBodies : CallParseAiResponse(response)

-----------------------------------------------------------------------------
(* Depot discovery: SteamToolsGenerator._find_depot_ids, called on its own  *)

DepotApps == {<<"7", "3", "0">>, <<"4", "4", "0">>}

DepotDiscoveryInit ==
    /\ fdPc = "idle"
    /\ fdApp = <<>>
    /\ fdLm = FALSE
    /\ fdEnv = CHOOSE env \in DepotEnvs : TRUE
    /\ fdResult = <<>>

\* _find_depot_ids(app_id), with the language model available or not and
\* the sources answering env
CallFindDepotIds(app_id, lm, env) ==
    /\ fdPc' = "returned"
    /\ fdApp' = app_id
    /\ fdLm' = lm
    /\ fdEnv' = env
    /\ fdResult' = FindDepotIds(app_id, lm, env)
    /\ UNCHANGED notFd

RunFindDepotIds ==
    \E app_id \in DepotApps, lm \in BOOLEAN, env \in DepotEnvs : CallFindDepotIds(app_id, lm, env)

-----------------------------------------------------------------------------
(* Key validation: SteamToolsGenerator.validate_decryption_key              *)

\* c.isalnum() of the characters drawn here: letters and digits
AlnumChars == HexChars \cup {"g", "G", "z"}

\* c.lower() of the characters drawn here
LowerChar(c) ==
    IF c = "A" THEN "a" ELSE IF c = "B" THEN "b" ELSE IF c = "C" THEN "c"
    ELSE IF c = "D" THEN "d" ELSE IF c = "E" THEN "e" ELSE IF c = "F" THEN "f"
    ELSE IF c = "G" THEN "g" ELSE c

\* s.lower()
Lower(s) == [i \in 1..Len(s) |-> LowerChar(s[i])]

\* ''.join(c for c in key if c.isalnum())
CleanKey(key) == SelectSeq(key, LAMBDA c : c \in AlnumChars)

\* validate_decryption_key returning clean_key without .lower()
ValidateDecryptionKeyAsCleaned(key) ==
    IF key = <<>> \/ key = Zero THEN Zero
    ELSE IF ValidKeyShape(CleanKey(key)) THEN CleanKey(key)
    ELSE Zero

\* validate_decryption_key
ValidateDecryptionKey(key) ==
    IF key = <<>> \/ key = Zero THEN Zero
    ELSE IF ValidKeyShape(CleanKey(key)) THEN Lower(CleanKey(key))
    ELSE Zero

\* working_key of test_working_key
WorkingKey ==
    <<"e", "6", "6", "3", "2", "a", "8", "a", "c", "0", "8", "1", "3", "2", "3", "9",
    "f", "e", "1", "7", "8", "4", "8", "5", "8", "8", "7", "8", "c", "1", "d", "c",
    "4", "8", "c", "4", "8", "0", "7", "5", "d", "5", "5", "d", "2", "b", "4", "0",
    "4", "5", "f", "5", "2", "9", "b", "a", "7", "b", "a", "3", "a", "0", "1", "c">>

\* Keys passed in: an optional first character, a run of 63, 64 or 65 equal
\* characters or nothing, and an optional last character; and the working key.
ValidationKeys ==
    {prefix \o body \o suffix :
        prefix \in {<<>>, <<" ">>, <<"-">>, <<"0">>, <<"g">>},
        body \in {<<>>} \cup {Repeat(c, n) : c \in {"a", "A", "7", "g"},
                                              n \in {KeyLength - 1, KeyLength, KeyLength + 1}},
        suffix \in {<<>>, <<" ">>, <<"F">>}}
    \cup {WorkingKey}

ValidationInit ==
    /\ vkPc = "idle"
    /\ vkKey = <<>>
    /\ vkResult = Zero
    /\ vkAgain = Zero

\* validate_decryption_key(key)
CallValidateDecryptionKey(key) ==
    /\ vkPc \in {"idle", "revalidated"}
    /\ vkPc' = "validated"
    /\ vkKey' = key
    /\ vkResult' = ValidateDecryptionKey(key)
    /\ UNCHANGED vkAgain
    /\ UNCHANGED notVk

\* validate_decryption_key applied to its own result
Revalidate ==
    /\ vkPc = "validated"
    /\ vkPc' = "revalidated"
    /\ vkAgain' = ValidateDecryptionKey(vkResult)
    /\ UNCHANGED <<vkKey, vkResult>>
    /\ UNCHANGED notVk

RunValidateDecryptionKey == \E key \in ValidationKeys : CallValidateDecryptionKey(key)

-----------------------------------------------------------------------------
(* Hybrid discovery: GameDatabase.discover_games_with_ai calling            *)
(* HybridGameDiscovery.discover_games_hybrid(5000)                          *)
(*                                                                          *)
(* The lists followed are far shorter than the counts the sources are       *)
(* asked for (5000 // 3, 5000 // 4, 100), so no slice shortens them.        *)

\* The sources in the order discover_games_hybrid reads them.
DiscoverySources == <<"Steam APIs", "SteamSpy", "SteamDB", "Additional Sources", "AI Generation">>

\* The record a source reports for an app id: the name tells the source.
DiscoveredGame(source, app_id) == Game(app_id, app_id \o " by " \o source, "Unknown", "Unknown", 0)

\* App ids the sources report: one the database holds, one it does not.
DiscoveryAppIds == {"730", "2000000"}

\* What one source returns.
DiscoveryLists(source) ==
    {<<>>} \cup {<<DiscoveredGame(source, a)>> : a \in DiscoveryAppIds}
           \cup {<<DiscoveredGame(source, a), DiscoveredGame(source, b)>> :
                    a \in DiscoveryAppIds, b \in DiscoveryAppIds}

\* for app_id, game_info in games: unique_games[app_id] = game_info
RECURSIVE UniqueGamesLastWins(_, _)
UniqueGamesLastWins(unique_games, games) ==
    IF games = <<>> THEN unique_games
    ELSE UniqueGamesLastWins(
             IF ItemsOf(unique_games, Head(games).app_id) = <<>>
             THEN Append(unique_games, Head(games))
             ELSE [i \in 1..Len(unique_games) |->
                      IF unique_games[i].app_id = Head(games).app_id
                      THEN Head(games) ELSE unique_games[i]],
             Tail(games))

\* for app_id, game_info in games:
\*     if app_id not in unique_games: unique_games[app_id] = game_info
RECURSIVE UniqueGames(_, _)
UniqueGames(unique_games, games) ==
    IF games = <<>> THEN unique_games
    ELSE UniqueGames(IF ItemsOf(unique_games, Head(games).app_id) = <<>>
                     THEN Append(unique_games, Head(games)) ELSE unique_games,
                     Tail(games))

HybridInit ==
    /\ hyPc = 0
    /\ hyReported = [i \in 1..Len(DiscoverySources) |-> <<>>]
    /\ hyAllGames = <<>>
    /\ hyFinalGames = <<>>
    /\ hyGames = LoadGameDatabase

\* One of the first four sources is read: all_games.extend(...)
DiscoverFromSource(games) ==
    /\ hyPc \in 0..3
    /\ hyPc' = hyPc + 1
    /\ hyReported' = [hyReported EXCEPT ![hyPc + 1] = games]
    /\ hyAllGames' = hyAllGames \o games
    /\ UNCHANGED <<hyFinalGames, hyGames>>
    /\ UNCHANGED notHy

\* if self.lm and self.lm.is_available(): all_games.extend(self._discover_with_ai(...))
DiscoverWithAi(available, games) ==
    /\ hyPc = 4
    /\ hyPc' = 5
    /\ hyReported' = [hyReported EXCEPT ![5] = IF available THEN games ELSE <<>>]
    /\ hyAllGames' = (IF available THEN hyAllGames \o games ELSE hyAllGames)
    /\ UNCHANGED <<hyFinalGames, hyGames>>
    /\ UNCHANGED notHy

\* Remove duplicates; return final_games
ReturnFinalGames ==
    /\ hyPc = 5
    /\ hyPc' = 6
    /\ hyFinalGames' = UniqueGames(<<>>, hyAllGames)
    /\ UNCHANGED <<hyReported, hyAllGames, hyGames>>
    /\ UNCHANGED notHy

\* discover_games_with_ai: Add to database
AddDiscoveredGames ==
    /\ hyPc = 6
    /\ hyPc' = 7
    /\ hyGames' = UniqueGames(hyGames, hyFinalGames)
    /\ UNCHANGED <<hyReported, hyAllGames, hyFinalGames>>
    /\ UNCHANGED notHy

RunDiscoverFromSource ==
    /\ hyPc \in 0..3
    /\ \E games \in DiscoveryLists(DiscoverySources[hyPc + 1]) : DiscoverFromSource(games)
RunDiscoverWithAi ==
    \E available \in BOOLEAN, games \in DiscoveryLists(DiscoverySources[5]) :
        DiscoverWithAi(available, games)

-----------------------------------------------------------------------------
(* Language model: LMStudioIntegration.setup_model, is_available and        *)
(* generate_text                                                            *)
(*                                                                          *)
(* model_id holds a JSON value, JNull for None.                             *)

\* POST requests followed.
MaxRequests == 4

\* What the server does with one request: an exception of the requests
\* library, or a status and a body.
ServerReply(exc, status, body) == [exc |-> exc, status |-> status, body |-> body]

\* The classes the three handlers of generate_text catch, in their order:
\* Timeout; RequestException and its subclasses; Exception and its subclasses
GenerateTextCatches(cls) ==
    \/ cls = "Timeout"
    \/ cls \in {"RequestException", "ConnectionError", "Timeout"}
    \/ cls \in {"Exception", "RequestException", "ConnectionError", "Timeout", "ValueError",
                "JSONDecodeError", "RecursionError", "KeyError", "TypeError", "IndexError"}

\* setup_model: [available, model_id] after the call, given the fields before
SetupModelFields(model_id, reply) ==
    LET failed == [available |-> FALSE, model_id |-> model_id]
        parsed == JsonLoads(reply.body)
    IN  IF reply.exc # "none" THEN failed
        ELSE IF reply.status # 200 THEN failed
        ELSE IF parsed.exc # "none" THEN failed
        ELSE IF parsed.val.t # "dict" THEN failed
        ELSE IF ~HasKey(parsed.val, "data") THEN failed
        ELSE IF Get(parsed.val, "data").t \notin {"list", "dict"} THEN failed
        ELSE IF Len(Get(parsed.val, "data").items) = 0 THEN failed
        ELSE IF Get(parsed.val, "data").t # "list" THEN failed
        ELSE IF Get(parsed.val, "data").items[1].v.t # "dict" THEN failed
        ELSE IF ~HasKey(Get(parsed.val, "data").items[1].v, "id") THEN failed
        ELSE [available |-> TRUE, model_id |-> Get(Get(parsed.val, "data").items[1].v, "id")]

\* is_available
IsAvailable(available, model_id) == available /\ model_id # JNull

\* generate_text once the request is sent: what the try block comes to
GenerateTextTry(reply) ==
    LET parsed == JsonLoads(reply.body)
    IN  IF reply.exc # "none" THEN Raise(reply.exc)
        ELSE IF reply.status # 200 THEN Ok(JNull)
        ELSE IF parsed.exc # "none" THEN Raise(parsed.exc)
        ELSE IF parsed.val.t \notin {"dict", "list", "str"} THEN Raise("TypeError")
        ELSE IF parsed.val.t # "dict" \/ ~HasKey(parsed.val, "choices") THEN Ok(JNull)
        ELSE IF Get(parsed.val, "choices").t \notin {"list", "dict", "str"} THEN Raise("TypeError")
        ELSE IF Get(parsed.val, "choices").t = "str"
        THEN (IF Len(Get(parsed.val, "choices").s) > 0 THEN Raise("TypeError") ELSE Ok(JNull))
        ELSE IF Len(Get(parsed.val, "choices").items) = 0 THEN Ok(JNull)
        ELSE IF Get(parsed.val, "choices").t # "list" THEN Raise("KeyError")
        ELSE IF Get(parsed.val, "choices").items[1].v.t # "dict" THEN Raise("TypeError")
        ELSE IF ~HasKey(Get(parsed.val, "choices").items[1].v, "message") THEN Raise("KeyError")
        ELSE IF Get(Get(parsed.val, "choices").items[1].v, "message").t # "dict"
        THEN Raise("TypeError")
        ELSE IF ~HasKey(Get(Get(parsed.val, "choices").items[1].v, "message"), "content")
        THEN Raise("KeyError")
        ELSE Ok(Get(Get(Get(parsed.val, "choices").items[1].v, "message"), "content"))

\* generate_text: the value returned, or the exception no handler catches
GenerateTextResult(available, model_id, reply) ==
    IF ~IsAvailable(available, model_id) THEN Ok(JNull)
    ELSE IF GenerateTextTry(reply).exc = "none" THEN GenerateTextTry(reply)
    ELSE IF GenerateTextCatches(GenerateTextTry(reply).exc) THEN Ok(JNull)
    ELSE GenerateTextTry(reply)

\* Model lists the server may hold under /v1/models
ModelDocuments ==
    {JDict(<<Entry("data", JList(<<JDict(<<Entry("id", id)>>)>>))>>) :
        id \in {JStr(<<"m", "1">>), JStr(<<"m", "2">>), JStr(<<>>), JNull}}
    \cup {JDict(<<Entry("data", JList(<<>>))>>), JDict(<<>>), JList(<<>>),
          JDict(<<Entry("data", JList(<<JDict(<<>>)>>))>>)}

\* Replies to a chat completion
CompletionDocuments ==
    {JDict(<<Entry("choices",
                   JList(<<JDict(<<Entry("message", JDict(<<Entry("content", c)>>))>>)>>))>>) :
        c \in {JStr(<<"7", "3", "0">>), JStr(<<"[", "]">>), JStr(<<>>), JNull}}
    \cup {JDict(<<Entry("choices", JList(<<>>))>>), JDict(<<>>), JNull,
          JDict(<<Entry("choices", JList(<<JDict(<<>>)>>))>>)}

\* What the server does with a request
ServerReplies(documents) ==
    {ServerReply(exc, 0, NoResponse) : exc \in {"Timeout", "ConnectionError"}}
    \cup {ServerReply("none", 500, NoResponse)}
    \cup {ServerReply("none", 200, Body("text", JNull, <<>>))}
    \cup {ServerReply("none", 200, Body("json", doc, <<>>)) : doc \in documents}

LanguageModelInit ==
    /\ lsPc = "constructing"
    /\ lsModelId = JNull
    /\ lsAvailable = FALSE
    /\ lsReturn = Ok(JNull)
    /\ lsRequests = 0

\* setup_model, called by __init__ and callable again; returns self.available
SetupModel(reply) ==
    /\ lsPc' = "setup_model"
    /\ lsModelId' = SetupModelFields(lsModelId, reply).model_id
    /\ lsAvailable' = SetupModelFields(lsModelId, reply).available
    /\ lsReturn' = Ok(IF SetupModelFields(lsModelId, reply).available
                      THEN JStr(<<"T", "r", "u", "e">>) ELSE JStr(<<"F", "a", "l", "s", "e">>))
    /\ UNCHANGED lsRequests
    /\ UNCHANGED notLs

\* generate_text(prompt)
GenerateText(reply) ==
    /\ lsPc # "constructing"
    /\ lsRequests < MaxRequests
    /\ lsPc' = "generate_text"
    /\ lsReturn' = GenerateTextResult(lsAvailable, lsModelId, reply)
    /\ lsRequests' = (IF IsAvailable(lsAvailable, lsModelId) THEN lsRequests + 1 ELSE lsRequests)
    /\ UNCHANGED <<lsModelId, lsAvailable>>
    /\ UNCHANGED notLs

CallSetupModel == \E reply \in ServerReplies(ModelDocuments) : SetupModel(reply)
CallGenerateText == \E reply \in ServerReplies(CompletionDocuments) : GenerateText(reply)

-----------------------------------------------------------------------------
(* Specifications                                                          *)

Init ==
    /\ RequestInit
    /\ ManifestInit
    /\ KeyInit
    /\ AggregateInit
    /\ SessionInit
    /\ LookupInit
    /\ DatabaseInit
    /\ KeySearchInit
    /\ OverlapInit
    /\ ScanInit
    /\ ExtractionInit
    /\ DepotDiscoveryInit
    /\ ValidationInit
    /\ HybridInit
    /\ LanguageModelInit

Next ==
    \/ CallGenerateFiles
    \/ RunWorkerGameInfo
    \/ RunWorkerFindDepots
    \/ RunWorkerManifest
    \/ RunWorkerKey
    \/ RunWorkerFiles
    \/ WorkerLeaveHandler
    \/ UpdateGeneratedFiles
    \/ GenerationError
    \/ ClearAll
Spec == Init /\ [][Next]_vars

NextRequest == CallMakeRequest \/ RunAttempt
SpecRequest == Init /\ [][NextRequest]_vars

NextManifest == CallGenerateManifest
SpecManifest == Init /\ [][NextManifest]_vars

NextKey == CallKeyPrepare \/ CallKeyFirst \/ CallKeySecond \/ Tick
SpecKey == Init /\ [][NextKey]_vars

NextAggregate == CallAggregate
SpecAggregate == Init /\ [][NextAggregate]_vars

NextLookup == CallStartLookup \/ RunQueryProvider \/ RunStoreManifest
SpecLookup == Init /\ [][NextLookup]_vars

NextDatabase == CallAddGame \/ CallGetPopularGames \/ CallGetGameInfo
SpecDatabase == Init /\ [][NextDatabase]_vars

NextKeySearch ==
    \/ CallAutoFindKeys
    \/ RunSearchSteamdbApi
    \/ RunSearchCommunityDatabase
    \/ RunSearchFaresStyle
    \/ SearchAiTools
    \/ UpdateAutoFindResults
    \/ CallFetchGameInfo
    \/ RunFetchGameInfoThread
    \/ UpdateGameInfo
    \/ FetchError
    \/ RunFetchErrorOfException
SpecKeySearch == Init /\ [][NextKeySearch]_vars

\* The worker threads run on, and the Tk main loop runs every callback handed
\* to root.after; nobody has to press a button.
KeySearchFairness ==
    /\ WF_vars(RunSearchSteamdbApi)
    /\ WF_vars(RunSearchCommunityDatabase)
    /\ WF_vars(RunSearchFaresStyle)
    /\ WF_vars(SearchAiTools)
    /\ WF_vars(UpdateAutoFindResults)
    /\ WF_vars(RunFetchGameInfoThread)
    /\ WF_vars(UpdateGameInfo)
    /\ WF_vars(FetchError)
    /\ WF_vars(RunFetchErrorOfException)
SpecKeySearchFair == SpecKeySearch /\ KeySearchFairness

NextOverlap ==
    \/ CallOvGenerateFiles
    \/ RunOvGenerateContents
    \/ RunOvStoreGenerated
    \/ RunOvScheduleUpdate
    \/ OvUpdateGeneratedFiles
SpecOverlap == Init /\ [][NextOverlap]_vars

NextScan == CallStartScan \/ EvaluatePattern \/ EndScan
SpecScan == Init /\ [][NextScan]_vars

NextExtraction == RunExtractManifestFromJson \/ RunTrySteamdbApiEndpoints \/ RunParseAiResponse
SpecExtraction == Init /\ [][NextExtraction]_vars

NextDepotDiscovery == RunFindDepotIds
SpecDepotDiscovery == Init /\ [][NextDepotDiscovery]_vars

NextValidation == RunValidateDecryptionKey \/ Revalidate
SpecValidation == Init /\ [][NextValidation]_vars

NextHybrid ==
    \/ RunDiscoverFromSource
    \/ RunDiscoverWithAi
    \/ ReturnFinalGames
    \/ AddDiscoveredGames
SpecHybrid == Init /\ [][NextHybrid]_vars

NextLanguageModel == CallSetupModel \/ CallGenerateText
SpecLanguageModel == Init /\ [][NextLanguageModel]_vars

-----------------------------------------------------------------------------
(* Claims about the generation session                                     *)

\* C1: the depot id, manifest id and key a session delivers to
\* _update_generated_files are all non-empty, whatever the providers returned.
C1_TotalResolution ==
    uiState = "completed" =>
        /\ uiFields.depot_id # <<>>
        /\ uiFields.manifest_id # <<>>
        /\ uiFields.encryption_key.len > 0

\* C2: no session started with a non-empty app id ends in failure: the
\* worker's error handler never runs and _generation_error is never reached.
C2_NoTerminalFailure ==
    /\ wPc \notin {"handling", "failed"}
    /\ uiState \notin {"error", "callback_failed"}

\* C3: no exception raised inside the session worker leaves it: whatever a
\* provider, parser or generator raises is handled inside the worker.
C3_NoErrorEscapes ==
    /\ wPc # "escaped"
    /\ wExc # "none" => wPc \in {"handling", "failed"}

\* C3 witness: a generator raised (int(depot_id) on a non-numeric depot id)
\* and the worker's handler took the exception.
C3_Witness == wPc = "failed" /\ wExc = "ValueError"

C15_ResultProvenance ==
    (uiState = "completed") =>
        ("resolvedBy" \in DOMAIN uiFields /\ uiFields.resolvedBy \in {"External", "Fallback"})

-----------------------------------------------------------------------------
(* Claims about the request executor                                       *)

C7_FetchFailureIsValue ==
    WellFormed(rqUrl) =>
        /\ rqPc # "raised"
        /\ (rqPc = "returned" /\ rqLast # "200") => rqResult = "None"

\* The last attempt of a call ended in an exception of no requests class and
\* the call returned None.
C7_Witness ==
    /\ WellFormed(rqUrl)
    /\ rqPc = "returned"
    /\ rqLast = "Exception"
    /\ rqResult = "None"

\* C8: one call issues at most 5 (SteamToolsGenerator) or 3
\* (HybridGameDiscovery) attempts, and the attempt that got status 200 is the
\* last one: the call has returned the response.
C8_RetryBudget ==
    /\ rqClass = "SteamToolsGenerator" => rqAttempts <= StgAttempts
    /\ rqClass = "HybridGameDiscovery" => rqAttempts <= HgdAttempts
    /\ rqLast = "200" => (rqPc = "returned" /\ rqResult = "Response")

\* A call used its whole budget without a 200.
C8_Witness ==
    /\ rqClass = "SteamToolsGenerator"
    /\ rqAttempts = StgAttempts
    /\ rqPc = "returned"
    /\ rqResult = "None"

\* C9 (as stated): an attempt answered with 404 ends the call at once, with a
\* failure.
C9_NotFoundFailsAtOnceAsStated ==
    rqLast = "404" => (rqPc = "returned" /\ rqResult = "None")

\* C9 (amended): a 404 is retried like every other non-200 outcome.  While the
\* budget is not used up the call stays in its loop after a 404, and a call
\* returns None only after it issued its full budget of attempts.
C9_NotFoundIsRetried ==
    /\ (rqLast = "404" /\ rqAttempts < RetryBudget(rqClass)) => rqPc = "loop"
    /\ (rqPc = "returned" /\ rqResult = "None") => rqAttempts = RetryBudget(rqClass)

\* After a 404 on the second attempt the call is still looping.
C9_Witness ==
    /\ rqLast = "404"
    /\ rqAttempts = 2
    /\ rqPc = "loop"

-----------------------------------------------------------------------------
(* Claims about the manifest fallback                                      *)

-----------------------------------------------------------------------------
(* Claims about the key derivation                                         *)

\* C4: two calls of the key derivation with the same (app id, depot id,
\* context) that return a key return the same 64-character key, whatever the
\* clock and the language model do.
C4_KeyDeterministic ==
    (kdPc = "called2" /\ kdKey1 # Raised /\ kdKey2 # Raised) =>
        /\ kdKey1 = kdKey2
        /\ kdKey1.len = HexDigestLen

\* C19: a call of ai_generate_advanced_key or _generate_encryption_key never
\* raises and returns a key of exactly 64 characters, whatever the ids, the
\* additional data and the language model's replies.
C19_KeyDerivationTotal ==
    (kdPc \in {"called1", "called2"}) =>
        (kdKey1 # Raised /\ kdKey1.len = HexDigestLen)

-----------------------------------------------------------------------------
(* Claims about the aggregation                                            *)

\* C10: the result has exactly one entry per distinct key of the input, and
\* the entry of a key carries the highest confidence among the candidates
\* with that key.
C10_DedupKeepsHighest ==
    agPc = "done" =>
        /\ DOMAIN agScores = {agInput[i].key : i \in 1..Len(agInput)}
        /\ \A k \in DOMAIN agScores :
              \A i \in 1..Len(agInput) :
                  agInput[i].key = k => agScores[k] >= CandidateScore(agInput[i])


-----------------------------------------------------------------------------
(* Claims about the manifest lookup                                        *)

C14_FallbackOnlyOnEmpty ==
    lkPc = "stored" =>
        LET synthesized ==
                lkSource \in SynthesizingProviders \cup {"_generate_realistic_manifest_id"}
            externalEmpty ==
                \A i \in 1..Len(Providers(lkFn)) :
                    Providers(lkFn)[i] \notin SynthesizingProviders =>
                        i <= Len(lkAnswers) /\ lkAnswers[i] = Zero
        IN  /\ synthesized <=> externalEmpty
            /\ ~synthesized => (lkManifest = lkResult /\ lkResult # Zero)


\* C17: every manifest id a lookup returns as found (a value other than "0")
\* consists of decimal digits only and has at least 15 of them.
C17_FoundManifestShape ==
    (lkPc \in {"returned", "stored"} /\ lkResult # Zero) =>
        (IsDigits(lkResult) /\ Len(lkResult) >= MinScrapedLength)


-----------------------------------------------------------------------------
(* Claims about the game database (SpecDatabase)                            *)

\* C20: after any sequence of add_game calls, get_popular_games(limit) with a
\* limit >= 0 returns at most limit entries, each an (app_id, info) item of the
\* database and none twice, ordered by non-increasing release_year; and
\* get_game_info(app_id) returns the record add_game was last called with for
\* that app id.
C20_PopularGames ==
    /\ (dbCall.op = "get_popular_games") =>
           /\ Len(dbReturn) <= dbCall.limit
           /\ Len(dbReturn) = Min(dbCall.limit, Len(dbGames))
           /\ \A i \in 1..Len(dbReturn) : \E j \in 1..Len(dbGames) : dbReturn[i] = dbGames[j]
           /\ \A i, j \in 1..Len(dbReturn) : i # j => dbReturn[i].app_id # dbReturn[j].app_id
           /\ \A i, j \in 1..Len(dbReturn) :
                  i <= j => dbReturn[i].info.release_year >= dbReturn[j].info.release_year
           /\ \A i \in 1..Len(dbReturn) : \A j \in 1..Len(dbGames) :
                  dbGames[j].info.release_year > dbReturn[i].info.release_year =>
                      \E k \in 1..Len(dbReturn) : dbReturn[k] = dbGames[j]
    /\ (dbCall.op = "get_game_info" /\ dbLast[dbCall.app_id] # <<>>) =>
           dbReturn = dbLast[dbCall.app_id]
    /\ \A app_id \in DbAppIds :
           dbLast[app_id] # <<>> => GetGameInfoOf(dbGames, app_id) = dbLast[app_id]

\* get_popular_games(3) after add_game replaced the record of "730" by one of
\* 2030 and added "2000000" with year 0: the replaced record leads the result
\* and the limit cuts the list.
C20_Witness ==
    /\ dbCall.op = "get_popular_games"
    /\ dbCall.limit = 3
    /\ Len(dbReturn) = 3
    /\ dbLast["2000000"] # <<>>
    /\ dbLast["730"] # <<>>
    /\ dbReturn[1].app_id = "730"
    /\ dbReturn[1].info.release_year = 2030
    /\ <<dbReturn[1].info>> = dbLast["730"]


-----------------------------------------------------------------------------
(* Claims about the key search (SpecKeySearch)                              *)

\* C16: every key taken from an external source (SteamDB API, community and
\* GitHub databases, cysaw.org) and stored as the current key has exactly 64
\* characters, each in 0-9 or lowercase a-f.
C16_AcceptedKeyShape ==
    (kfSource # "none") =>
        /\ Len(kfKey) = KeyLength
        /\ \A i \in 1..Len(kfKey) : kfKey[i] \in Digits \cup {"a", "b", "c", "d", "e", "f"}


------------------------------------------------------------------------\* C25: when _update_auto_find_results runs with a non-empty result, the
\* depot id field changes only if it was empty, the manifest id field changes
\* only if it was empty and the found manifest is not "0", and the key field
\* is set to the key of the first found depot; with an empty result none of
\* the three fields changes.
C25_UpdateFrame ==
    [][(kfPc = "scheduled" /\ kfPc' = "idle") =>
          IF kfFound # <<>>
          THEN /\ ((kfDepotId' # kfDepotId) => (kfDepotId = <<>>))
               /\ ((kfManifestId' # kfManifestId) =>
                      (kfManifestId = <<>> /\ kfFound[1].manifest # Zero))
               /\ kfKey' = kfFound[1].key
          ELSE UNCHANGED <<kfDepotId, kfManifestId, kfKey>>]_vars

\* The callback has run with the Star Trucker key found first while the depot
\* id field held another depot and the manifest id field was empty: the key
\* and the manifest id are taken, the depot id is left.
C25_Witness ==
    /\ kfPc = "idle"
    /\ kfKey = StarTruckerKey
    /\ kfManifestId = CommunitySources(<<"2", "3", "8", "0", "0", "5", "0">>)[1].manifest
    /\ kfDepotId # <<>>
    /\ kfDepotId # CommunitySources(<<"2", "3", "8", "0", "0", "5", "0">>)[1].depot_id

\* The four entries methods_tried gets whatever happens
MethodNames ==
    <<"SteamDB API", "Community Database", "Fares.top-style Search", "AI Tools Search">>

\* C28: the four methods run in the order SteamDB API, community database,
\* Fares-style search, AI tools, also after a method has failed, and a key
\* data stored for a depot id stays as it is while the later methods run.
C28_SourcePrecedence ==
    /\ [](/\ ((kfPc = "scheduled") =>
               SelectSeq(kfMethodsTried, LAMBDA m : m \in {MethodNames[i] : i \in 1..4})
                  = MethodNames)
           /\ ((kfPc \in {"community", "fares", "ai"}) =>
               \E n \in 1..3 :
                   SelectSeq(kfMethodsTried, LAMBDA m : m \in {MethodNames[i] : i \in 1..4})
                      = SubSeq(MethodNames, 1, n)))
    /\ [][(kfPc \in {"community", "fares", "ai"}) =>
              /\ Len(kfFound') >= Len(kfFound)
              /\ \A i \in 1..Len(kfFound) : kfFound'[i] = kfFound[i]]_vars

\* All four methods have run although the first and the third failed, and the
\* second stored keys for two depots.
C28_Witness ==
    /\ kfPc = "scheduled"
    /\ \E i \in 1..Len(kfMethodsTried) : kfMethodsTried[i] = "SteamDB API (Error)"
    /\ \E i \in 1..Len(kfMethodsTried) : kfMethodsTried[i] = "Fares.top-style (Error)"
    /\ Len(kfFound) = 2
    /\ kfFound[1].source = "Community Database"

\* C27: a button disabled for a background action is eventually re-enabled,
\* on every outcome of the worker.
C27_ButtonsReenabled ==
    /\ (kfFetchBtn = "disabled") ~> (kfFetchBtn = "normal")
    /\ (kfAutoFindBtn = "disabled") ~> (kfAutoFindBtn = "normal")

\* The part of C27 that holds: the auto-find button is always re-enabled.
C27_AutoFindButtonReenabled ==
    (kfAutoFindBtn = "disabled") ~> (kfAutoFindBtn = "normal")


-----
(* Claims about overlapping sessions (SpecOverlap)                          *)

\* C18: once two overlapping sessions have both finished and their callbacks
\* have run, the five stored outputs and the displayed depot, manifest and
\* key all come from one and the same session.
C18_SessionIsolation ==
    ((\A s \in Sessions : ovPc[s] = "finished") /\ ovQueue = <<>>) =>
        \E s \in Sessions :
            /\ \A a \in DOMAIN ovGenerated : ovGenerated[a] = s
            /\ ovDisplayed = s


-----------------------------------------------------------------------------
(* Claims about the pattern scan (SpecScan)                                 *)

\* C21 as stated: the first pattern with at least one match decides the
\* result of the response, and no later pattern is evaluated.
C21_FirstMatchWinsAsStated ==
    (scPc = "done") =>
        LET matching == {i \in 1..PatternCount(scFn) : scResponse[i] # <<>>} IN
        IF matching = {} THEN scResult = Zero /\ Len(scEvaluated) = PatternCount(scFn)
        ELSE LET first == CHOOSE i \in matching : \A k \in matching : i <= k
             IN  /\ scEvaluated = [i \in 1..first |-> i]
                 /\ scResult = scResponse[first][1]

\* C21: the patterns are evaluated in list order; the first pattern with an
\* accepted match decides the result and no later pattern is evaluated.  In
\* _scrape_steamdb_manifests_page a pattern is accepted when its first match
\* has at least 15 characters (a shorter first match lets the scan go on); in
\* _search_additional_web_sources and _try_alternative_sources every match
\* is accepted, so there the first pattern with a match decides.
C21_FirstAcceptedMatchWins ==
    /\ \A k \in 1..Len(scEvaluated) : scEvaluated[k] = k
    /\ (scPc = "done") =>
           LET accepted ==
                   {i \in 1..PatternCount(scFn) :
                       /\ scResponse[i] # <<>>
                       /\ (scFn = "_scrape_steamdb_manifests_page") =>
                              Len(scResponse[i][1]) >= MinScrapedLength}
           IN  IF accepted = {}
               THEN scResult = Zero /\ Len(scEvaluated) = PatternCount(scFn)
               ELSE LET first == CHOOSE i \in accepted : \A k \in accepted : i <= k
                    IN  /\ Len(scEvaluated) = first
                        /\ scResult = scResponse[first][1]
                        /\ (scFn = "_scrape_steamdb_manifests_page") =>
                               Len(scResult) >= MinScrapedLength

\* _scrape_steamdb_manifests_page on a response whose first pattern finds a
\* short number and whose last pattern finds a long one: the long one is
\* returned after all five patterns were evaluated.
C21_Witness ==
    /\ scPc = "done"
    /\ scFn = "_scrape_steamdb_manifests_page"
    /\ scResponse[1] # <<>>
    /\ Len(scResponse[1][1]) < MinScrapedLength
    /\ Len(scEvaluated) = 5
    /\ scResult = scResponse[5][1]


-----------------------------------------------------------------------------
(* Claims about extraction (SpecExtraction)                                 *)

\* C22: for every response body the extraction functions return instead of
\* raising, and a body that is empty or not JSON, or a document of another
\* type than the function reads (no dictionary for the manifest functions,
\* a 'manifest' that is no string for _try_steamdb_api_endpoints, no list
\* for _parse_ai_response) yields the empty result: "0", or no game.
C22_ExtractionNeverThrows ==
    (exFn # "none") =>
        /\ exResult.exc = "none"
        /\ (exFn = "_parse_ai_response" /\ exBody.syntax \in {"empty", "blank", "deep", "bigint"}) =>
               Len(exResult.val) = 0
        /\ (exFn = "_parse_ai_response" /\ exBody.syntax = "json" /\ exBody.value.t # "list") =>
               Len(exResult.val) = 0
        /\ (exFn = "_extract_manifest_from_json" /\ exBody.value.t # "dict") =>
               exResult.val = Zero
        /\ (/\ exFn = "_try_steamdb_api_endpoints"
            /\ \/ exBody.syntax # "json"
               \/ exBody.value.t # "dict"
               \/ HasKey(exBody.value, "manifest") /\ Get(exBody.value, "manifest").t # "str") =>
               exResult.val = Zero


-----------------------------------------------------------------------------
(* Claims about depot discovery (SpecDepotDiscovery)                        *)

\* C23: when a depot source fails after earlier sources contributed depot
\* ids, the ids found so far are kept in the returned list; the single
\* fallback id app_id + "1" is returned only when no source contributed.
C23_PartialFailureAbsorbed ==
    (fdPc = "returned") =>
        LET ai == IF fdLm THEN fdEnv.ai_depots ELSE <<>>
            sofar == IF fdEnv.steamdb.kind # "keys" THEN ai
                     ELSE IF fdEnv.store.kind # "keys" THEN ai \o fdEnv.steamdb.keys
                     ELSE <<>>
        IN  (sofar # <<>>) =>
                /\ \A i \in 1..Len(sofar) : i <= MaxDepots =>
                       \E j \in 1..Len(fdResult) : fdResult[j] = sofar[i]
                /\ fdResult # <<fdApp \o <<"1">>>>

\* C26: _find_depot_ids returns at least 1 and at most 3 depot ids, none
\* twice, and ids reported by sources stand in the order of the source that
\* first reported them (AI discovery, SteamDB API, Steam Store API, AI
\* pattern analysis).
C26_DepotListShape ==
    (fdPc = "returned") =>
        LET sources == <<IF fdLm THEN fdEnv.ai_depots ELSE <<>>,
                         fdEnv.steamdb.keys, fdEnv.store.keys,
                         IF fdLm THEN fdEnv.patterns ELSE <<>>>>
            reports(s, id) == \E k \in 1..Len(sources[s]) : sources[s][k] = id
            reported(id) == \E s \in 1..4 : reports(s, id)
            first(id) == CHOOSE s \in 1..4 : reports(s, id) /\ \A t \in 1..4 : reports(t, id) => s <= t
        IN  /\ Len(fdResult) >= 1
            /\ Len(fdResult) <= 3
            /\ \A i, j \in 1..Len(fdResult) : i # j => fdResult[i] # fdResult[j]
            /\ \A i, j \in 1..Len(fdResult) :
                   (i < j /\ reported(fdResult[i]) /\ reported(fdResult[j])) =>
                       first(fdResult[i]) <= first(fdResult[j])

\* AI discovery reports 731, the SteamDB API reports 731..734 and the Steam
\* Store reports 732: three distinct ids are returned.
C26_Witness ==
    /\ fdPc = "returned"
    /\ fdLm
    /\ fdEnv.ai_depots # <<>>
    /\ Len(fdEnv.steamdb.keys) = 4
    /\ fdEnv.store.keys # <<>>
    /\ Len(fdResult) = 3
    /\ fdResult[1] = fdEnv.ai_depots[1]


-----------------------------------------------------------------------------
(* Claims about key validation (SpecValidation)                             *)

\* C24 as stated: the result is "0" or 64 characters in 0-9a-f, it equals the
\* lowercased cleaned input exactly when the cleaned input is 64 hexadecimal
\* characters, and validating twice gives the same as validating once.
C24_NormalisingFilterAsStated ==
    /\ (vkPc # "idle") =>
           /\ \/ vkResult = Zero
              \/ /\ Len(vkResult) = KeyLength
                 /\ \A i \in 1..Len(vkResult) :
                        vkResult[i] \in Digits \cup {"a", "b", "c", "d", "e", "f"}
           /\ (vkResult = Lower(CleanKey(vkKey))) <=>
                  (/\ Len(CleanKey(vkKey)) = KeyLength
                   /\ \A i \in 1..Len(CleanKey(vkKey)) : CleanKey(vkKey)[i] \in HexChars)
    /\ (vkPc = "revalidated") => vkAgain = vkResult

\* C24: the result is "0" or 64 characters in 0-9a-f; it equals the
\* lowercased cleaned input exactly when the cleaned input is 64 hexadecimal
\* characters or is "0" itself; and validating twice gives the same as
\* validating once.
C24_NormalisingFilter ==
    /\ (vkPc # "idle") =>
           /\ \/ vkResult = Zero
              \/ /\ Len(vkResult) = KeyLength
                 /\ \A i \in 1..Len(vkResult) :
                        vkResult[i] \in Digits \cup {"a", "b", "c", "d", "e", "f"}
           /\ (vkResult = Lower(CleanKey(vkKey))) <=>
                  \/ /\ Len(CleanKey(vkKey)) = KeyLength
                     /\ \A i \in 1..Len(CleanKey(vkKey)) : CleanKey(vkKey)[i] \in HexChars
                  \/ CleanKey(vkKey) = Zero
    /\ (vkPc = "revalidated") => vkAgain = vkResult

\* A key of 64 upper-case hex characters between a dash and a blank was
\* validated twice: both results are its 64 lower-case characters.
C24_Witness ==
    /\ vkPc = "revalidated"
    /\ Len(vkKey) = KeyLength + 2
    /\ vkKey[1] = "-"
    /\ vkKey[2] = "A"
    /\ vkResult = Repeat("a", KeyLength)
    /\ vkAgain = vkResult


-----------------------------------------------------------------------------
(* Claims about hybrid discovery (SpecHybrid)                               *)

\* The first source, in the fixed order, that reported the app id
EarliestSource(app_id) ==
    CHOOSE s \in 1..Len(DiscoverySources) :
        /\ ItemsOf(hyReported[s], app_id) # <<>>
        /\ \A t \in 1..(s - 1) : ItemsOf(hyReported[t], app_id) = <<>>

\* C29: discover_games_hybrid returns every app id at most once, with the
\* record of the earliest source, in the order Steam APIs, SteamSpy, SteamDB,
\* additional sources, AI generation, that reported it; and merging the
\* result into the game database changes no record that was present.
C29_EarliestSourceKept ==
    /\ []((hyPc >= 6) =>
             /\ \A i, j \in 1..Len(hyFinalGames) :
                    (hyFinalGames[i].app_id = hyFinalGames[j].app_id) => (i = j)
             /\ \A i \in 1..Len(hyFinalGames) :
                    hyFinalGames[i] =
                        ItemsOf(hyReported[EarliestSource(hyFinalGames[i].app_id)],
                                hyFinalGames[i].app_id)[1]
             /\ \A s \in 1..Len(DiscoverySources) : \A k \in 1..Len(hyReported[s]) :
                    ItemsOf(hyFinalGames, hyReported[s][k].app_id) # <<>>)
    /\ [][(hyPc = 6) =>
             \A i \in 1..Len(hyGames) : (Len(hyGames') >= i /\ hyGames'[i] = hyGames[i])]_vars

\* App 2000000 was reported by SteamSpy and again by the AI, app 730 by SteamDB:
\* the result has the SteamSpy record, and after the merge the database still
\* has its own record of 730 and has gained 2000000.
C29_Witness ==
    /\ hyPc = 7
    /\ hyReported[1] = <<>>
    /\ ItemsOf(hyReported[2], "2000000") # <<>>
    /\ ItemsOf(hyReported[5], "2000000") # <<>>
    /\ ItemsOf(hyReported[3], "730") # <<>>
    /\ ItemsOf(hyFinalGames, "2000000")[1] = DiscoveredGame("SteamSpy", "2000000")
    /\ ItemsOf(hyGames, "730")[1] = LoadGameDatabase[1]
    /\ ItemsOf(hyGames, "2000000") # <<>>


-----------------------------------------------------------------------------
(* Claims about the language model (SpecLanguageModel)                      *)

\* C30: in every reachable state available = True implies model_id is set;
\* when is_available() is false generate_text returns None and sends no
\* request; and generate_text never raises, whatever the server does.
C30_AvailabilityGuard ==
    /\ [](lsAvailable => lsModelId # JNull)
    /\ [][(lsPc' = "generate_text" /\ ~IsAvailable(lsAvailable, lsModelId)) =>
              (lsReturn' = Ok(JNull) /\ lsRequests' = lsRequests)]_vars
    /\ []((lsPc = "generate_text") => (lsReturn.exc = "none"))

\* The part of C30 about generate_text, which holds
C30_GuardedGeneration ==
    /\ [][(lsPc' = "generate_text" /\ ~IsAvailable(lsAvailable, lsModelId)) =>
              (lsReturn' = Ok(JNull) /\ lsRequests' = lsRequests)]_vars
    /\ []((lsPc = "generate_text") => (lsReturn.exc = "none"))

====
